---- MODULE Spec2Model ----
(***************************************************************************)
(* State-machine model of the IFS-assistant conversation pipeline:         *)
(*   backend/app/utils/llm_service.py   (LLMService)                       *)
(*   backend/app/utils/embeddings.py    (EmbeddingManager)                 *)
(*   backend/app/utils/db_adapter.py    (DBAdapter)                        *)
(*   backend/app/api/conversations.py   (Flask handlers)                   *)
(*   backend/app/api/parts.py           (create_part_conversation)         *)
(***************************************************************************)
EXTENDS Integers, Sequences, FiniteSets, TLC

VARIABLES
    flags,      \* module-level availability flags and the backend switch
    db,         \* committed contents of the tables, one set of rows per table
    nextId,     \* source of fresh primary keys (uuid4 / uuid_generate_v4)
    clock,      \* source of timestamps (func.now())
    pc,         \* per request thread: position inside the running handler
    loc,        \* per request thread: the handler's local variables
    resp,       \* per request thread: what the last finished call returned
    http,       \* last request body posted to the remote generation backend
    emb_model   \* EmbeddingManager._model: "None" or "loaded"

vars == <<flags, db, nextId, clock, pc, loc, resp, http, emb_model>>

\* Python None / SQL NULL in a text or id position
None == "None"
\* a NULL embedding column
NoEmbedding == <<>>
\* the empty dict {}
EmptyDict == [k \in {} |-> None]

(***************************************************************************)
(* Bounds                                                                  *)
(***************************************************************************)
MaxHistory == 2      \* longest history handed to chat_with_part in SpecLLM
MaxRows == 3         \* fresh primary keys handed out
EmbDim == 2          \* stand-in for EmbeddingManager.embedding_dim

Procs == {"r1", "r2"}

(***************************************************************************)
(* Python text helpers                                                     *)
(***************************************************************************)
RECURSIVE Join(_, _)
\* sep.join(seq)
Join(sep, seq) ==
    IF Len(seq) = 0 THEN ""
    ELSE IF Len(seq) = 1 THEN seq[1]
    ELSE seq[1] \o sep \o Join(sep, Tail(seq))

Digit(d) ==
    CASE d = 0 -> "0" [] d = 1 -> "1" [] d = 2 -> "2" [] d = 3 -> "3" [] d = 4 -> "4"
      [] d = 5 -> "5" [] d = 6 -> "6" [] d = 7 -> "7" [] d = 8 -> "8" [] d = 9 -> "9"

RECURSIVE IntStr(_)
\* str(n) for a non-negative int
IntStr(n) == IF n < 10 THEN Digit(n) ELSE IntStr(n \div 10) \o Digit(n % 10)

(***************************************************************************)
(* JSON values a remote answer can decode to.  Every value carries the     *)
(* same fields: t the Python type, s a str value, n an int value, items a  *)
(* list's elements, has_gt/gt a dict's "generated_text" entry, other       *)
(* whether the dict has a key besides it.                                   *)
(***************************************************************************)
JStr(s) == [t |-> "str", s |-> s, n |-> 0, items |-> <<>>, has_gt |-> FALSE, gt |-> <<>>, other |-> FALSE]
JInt(n) == [t |-> "int", s |-> "", n |-> n, items |-> <<>>, has_gt |-> FALSE, gt |-> <<>>, other |-> FALSE]
JNull == [t |-> "NoneType", s |-> "", n |-> 0, items |-> <<>>, has_gt |-> FALSE, gt |-> <<>>, other |-> FALSE]
JList(items) == [t |-> "list", s |-> "", n |-> 0, items |-> items, has_gt |-> FALSE, gt |-> <<>>, other |-> FALSE]
\* {"generated_text": v}: gt is the one-element tuple <<v>>
JGen(v) == [t |-> "dict", s |-> "", n |-> 0, items |-> <<>>, has_gt |-> TRUE, gt |-> <<v>>, other |-> FALSE]
\* {"error": "x"} when other, {} otherwise
JDict(other) == [t |-> "dict", s |-> "", n |-> 0, items |-> <<>>, has_gt |-> FALSE, gt |-> <<>>, other |-> other]

RECURSIVE PyRepr(_)
\* repr(v), which str() of a container applies to its elements
PyRepr(v) ==
    CASE v.t = "str" -> "'" \o v.s \o "'"
      [] v.t = "int" -> IntStr(v.n)
      [] v.t = "NoneType" -> "None"
      [] v.t = "list" -> "[" \o Join(", ", [i \in 1..Len(v.items) |-> PyRepr(v.items[i])]) \o "]"
      [] v.t = "dict" ->
            IF v.has_gt THEN "{'generated_text': " \o PyRepr(v.gt[1]) \o "}"
            ELSE IF v.other THEN "{'error': 'x'}"
            ELSE "{}"

\* str(v)
PyStr(v) == IF v.t = "str" THEN v.s ELSE PyRepr(v)

\* needle in hay, for two Python strs
StrContains(hay, needle) ==
    \E i \in 1..(Len(hay) + 1) :
        /\ i + Len(needle) - 1 <= Len(hay)
        /\ SubSeq(hay, i, i + Len(needle) - 1) = needle

\* dict.get(key, default)
DictGet(d, key, default) == IF key \in DOMAIN d THEN d[key] ELSE default

(***************************************************************************)
(* LLMService (utils/llm_service.py)                                       *)
(***************************************************************************)
\* What requests.post and response.json() can do for one call:
\*   post_raises  requests.post raised; msg is str(e)
\*   status       an answer whose status_code is code (not 200)
\*   json_raises  status 200, response.json() raised; msg is str(e)
\*   json         status 200, body decoded to the value payload
RemoteRaise(msg) == [kind |-> "post_raises", code |-> 0, msg |-> msg, payload |-> JNull]
RemoteStatus(code) == [kind |-> "status", code |-> code, msg |-> "", payload |-> JNull]
RemoteBadJson(msg) == [kind |-> "json_raises", code |-> 200, msg |-> msg, payload |-> JNull]
RemoteJson(v) == [kind |-> "json", code |-> 200, msg |-> "", payload |-> v]

\* `"generated_text" in x`: raises TypeError when x is not iterable
InRaises(x) == x.t \in {"int", "NoneType"}
InGeneratedText(x) ==
    CASE x.t = "dict" -> x.has_gt
      [] x.t = "str" -> StrContains(x.s, "generated_text")
      [] x.t = "list" -> \E i \in 1..Len(x.items) : x.items[i] = JStr("generated_text")
      [] OTHER -> FALSE

\* x["generated_text"]: only a dict can be indexed by a str
IndexRaises(x) == x.t # "dict"

\* The body of the try block once the answer has status 200 and decoded to
\* result (llm_service.py lines 96-105); exc is the str() of a raised error.
handle_result(result) ==
    IF result.t = "list" /\ Len(result.items) > 0
    THEN LET first == result.items[1] IN
         IF InRaises(first)
         THEN [exc |-> "argument of type '" \o first.t \o "' is not iterable", value |-> JNull]
         ELSE IF InGeneratedText(first)
              THEN IF IndexRaises(first)
                   THEN [exc |-> first.t \o " indices must be integers", value |-> JNull]
                   ELSE [exc |-> None, value |-> first.gt[1]]
              ELSE [exc |-> None, value |-> JStr(PyStr(first))]
    ELSE IF result.t = "dict" /\ result.has_gt
         THEN [exc |-> None, value |-> result.gt[1]]
         ELSE [exc |-> None, value |-> JStr(PyStr(result))]

\* LLMService.generate_response: the value returned for prompt when the
\* remote backend behaves as remote.  Every raise inside the try block ends
\* in the except clause, so the method itself never raises.
generate_response(prompt, remote) ==
    IF ~flags.REQUESTS_AVAILABLE
    THEN JStr("Error: requests library not available for API calls")
    ELSE CASE remote.kind = "post_raises" -> JStr("Error: " \o remote.msg)
           [] remote.kind = "status" ->
                JStr("Error: Failed to generate response (Status code: " \o IntStr(remote.code) \o ")")
           [] remote.kind = "json_raises" -> JStr("Error: " \o remote.msg)
           [] remote.kind = "json" ->
                LET r == handle_result(remote.payload) IN
                IF r.exc # None THEN JStr("Error: " \o r.exc) ELSE r.value

\* the fixed guidelines / safety block appended after the attribute lines
Guidelines ==
    << "",
       "Guidelines:",
       "1. Respond as if you are this part, using first-person perspective.",
       "2. Stay true to the part's feelings, beliefs, and characteristics.",
       "3. Express the part's needs and concerns authentically.",
       "4. Avoid being judgmental or harmful.",
       "5. Keep responses concise and focused.",
       "",
       "Safety guidelines:",
       "1. If the conversation becomes harmful or inappropriate, gently redirect.",
       "2. Do not provide dangerous advice or encourage harmful behavior.",
       "3. Remember this is for self-exploration and understanding, not therapy.",
       "" >>

\* the optional "Feelings: a, b" style line; an absent, None or empty list
\* is falsy and gives no line
ListLine(part, key, label) ==
    IF Len(DictGet(part, key, <<>>)) > 0
    THEN << label \o ": " \o Join(", ", DictGet(part, key, <<>>)) >>
    ELSE <<>>

\* LLMService.create_part_prompt.  A text attribute that is Python None is
\* carried as the str "None", which is what the f-string renders it as.
create_part_prompt(part, conversation_history, user_message) ==
    LET part_description ==
            << "You are roleplaying as " \o DictGet(part, "name", "a part")
                 \o ", which is an internal part of a person according to Internal Family Systems therapy.",
               "Role: " \o DictGet(part, "role", "Unknown"),
               "Description: " \o DictGet(part, "description", "") >>
            \o ListLine(part, "feelings", "Feelings")
            \o ListLine(part, "beliefs", "Beliefs")
            \o ListLine(part, "triggers", "Triggers")
            \o ListLine(part, "needs", "Needs")
            \o Guidelines
        system_message == Join("\n", part_description)
        history_text ==
            [i \in 1..Len(conversation_history) |->
                (IF DictGet(conversation_history[i], "role", None) = "user"
                 THEN "User" ELSE DictGet(part, "name", "Part"))
                \o ": " \o DictGet(conversation_history[i], "content", "")]
        conversation_text ==
            history_text \o
            (IF user_message # ""
             THEN << "User: " \o user_message, DictGet(part, "name", "Part") \o ": " >>
             ELSE <<>>)
    IN system_message \o "\n\n" \o Join("\n", conversation_text)

\* LLMService.chat_with_part
chat_with_part(part, conversation_history, user_message, remote) ==
    IF ~flags.REQUESTS_AVAILABLE
    THEN JStr("Error: requests library not available for API calls")
    ELSE generate_response(create_part_prompt(part, conversation_history, user_message), remote)

\* the request body that reaches the remote backend, None when none is sent
posted_prompt(part, conversation_history, user_message) ==
    IF ~flags.REQUESTS_AVAILABLE THEN None
    ELSE create_part_prompt(part, conversation_history, user_message)

(***************************************************************************)
(* EmbeddingManager (utils/embeddings.py)                                  *)
(***************************************************************************)
ZeroVector == [i \in 1..EmbDim |-> 0]

\* SentenceTransformer.encode(text).tolist(): a fixed function of the text
\* with at least one non-zero component
Encode(text) == [i \in 1..EmbDim |-> IF i = 1 THEN (Len(text) % 3) + 1 ELSE 1]

\* What the encoder library does during one call: "ok", "load_fails" (the
\* SentenceTransformer constructor raises) or "encode_fails" (encode raises)
EncoderBehaviours == {"ok", "load_fails", "encode_fails"}

\* the `model` property: does reading it raise?
model_raises(enc) ==
    flags.TRANSFORMERS_AVAILABLE /\ emb_model = None /\ enc = "load_fails"

\* EmbeddingManager._model after one read of the `model` property
model_after(enc) ==
    IF flags.TRANSFORMERS_AVAILABLE /\ emb_model = None /\ enc # "load_fails"
    THEN "loaded" ELSE emb_model

\* EmbeddingManager.generate_embedding
generate_embedding(text, enc) ==
    IF ~flags.TRANSFORMERS_AVAILABLE
    THEN [raised |-> FALSE, value |-> ZeroVector]
    ELSE IF model_raises(enc) \/ enc = "encode_fails"
         THEN [raised |-> TRUE, value |-> NoEmbedding]
         ELSE [raised |-> FALSE, value |-> Encode(text)]

\* EmbeddingManager.generate_embeddings
generate_embeddings(texts, enc) ==
    IF ~flags.TRANSFORMERS_AVAILABLE
    THEN [raised |-> FALSE, value |-> [i \in 1..Len(texts) |-> ZeroVector]]
    ELSE IF model_raises(enc) \/ enc = "encode_fails"
         THEN [raised |-> TRUE, value |-> <<>>]
         ELSE [raised |-> FALSE, value |-> [i \in 1..Len(texts) |-> Encode(texts[i])]]

\* the optional "Feelings: a, b" element of the part text
TextElement(part, key, label) ==
    IF Len(DictGet(part, key, <<>>)) > 0
    THEN << label \o ": " \o Join(", ", DictGet(part, key, <<>>)) >>
    ELSE <<>>

\* the descriptive text get_part_embedding builds from the attributes
part_text(part) ==
    Join(" ",
        << "Name: " \o DictGet(part, "name", ""),
           "Role: " \o DictGet(part, "role", ""),
           "Description: " \o DictGet(part, "description", "") >>
        \o TextElement(part, "feelings", "Feelings")
        \o TextElement(part, "beliefs", "Beliefs")
        \o TextElement(part, "triggers", "Triggers")
        \o TextElement(part, "needs", "Needs"))

\* EmbeddingManager.get_part_embedding
get_part_embedding(part, enc) ==
    IF ~flags.TRANSFORMERS_AVAILABLE
    THEN [raised |-> FALSE, value |-> ZeroVector]
    ELSE generate_embedding(part_text(part), enc)

(***************************************************************************)
(* Storage.  db.sql is the SQLAlchemy database, db.supabase the remote     *)
(* table store; each holds one set of rows per table.  A NULL column is    *)
(* None, a NULL embedding the empty vector NoEmbedding.                    *)
(***************************************************************************)

Users == {"u1", "u2"}

SeedSystems == { [id |-> "s1", user_id |-> "u1"], [id |-> "s2", user_id |-> "u2"] }

SeedParts ==
    { [id |-> "p1", system_id |-> "s1", name |-> "Guardian", role |-> "Protector",
       description |-> "Keeps watch", feelings |-> <<"anxious">>, beliefs |-> <<>>,
       triggers |-> <<>>, needs |-> <<"safety">>],
      [id |-> "p2", system_id |-> "s2", name |-> "Critic", role |-> None,
       description |-> "", feelings |-> <<>>, beliefs |-> <<>>,
       triggers |-> <<>>, needs |-> <<>>] }

\* constraints names the UNIQUE constraints the database enforces
SeedTables ==
    [systems |-> SeedSystems, parts |-> SeedParts, part_conversations |-> {},
     conversation_messages |-> {}, part_personality_vectors |-> {}, constraints |-> {}]

\* TRANSFORMERS_AVAILABLE is set by the import of utils.embeddings and
\* REQUESTS_AVAILABLE by the import of utils.llm_service: when that import
\* failed the flag does not exist, and it is carried as FALSE
Flags ==
    { f \in [EMBEDDINGS_AVAILABLE : BOOLEAN, TRANSFORMERS_AVAILABLE : BOOLEAN,
             LLM_AVAILABLE : BOOLEAN, REQUESTS_AVAILABLE : BOOLEAN, using_supabase : BOOLEAN] :
        /\ f.TRANSFORMERS_AVAILABLE => f.EMBEDDINGS_AVAILABLE
        /\ f.REQUESTS_AVAILABLE => f.LLM_AVAILABLE }

NoResp == [op |-> None, status |-> 0, body |-> EmptyDict]
NoLoc == [op |-> None]
NoHttp == [request |-> None]

\* the state every specification starts from, up to the flags
InitCommon ==
    /\ db = [sql |-> SeedTables, supabase |-> SeedTables]
    /\ nextId = 1
    /\ clock = 1
    /\ pc = [p \in Procs |-> "idle"]
    /\ loc = [p \in Procs |-> NoLoc]
    /\ resp = [p \in Procs |-> NoResp]
    /\ http = NoHttp
    /\ emb_model = None

(***************************************************************************)
(* SpecLLM: LLMService.chat_with_part applied to bounded inputs            *)
(***************************************************************************)
PartDicts ==
    { [name |-> "Guardian", role |-> "Protector", description |-> "Keeps watch",
       feelings |-> <<"anxious", "alert">>, beliefs |-> <<>>, triggers |-> <<>>,
       needs |-> <<"safety">>],
      [name |-> "Critic", role |-> None, description |-> ""],
      EmptyDict }

HistoryTurns == { [role |-> "user", content |-> "hi"], [role |-> "part", content |-> "yo"] }

RECURSIVE SeqsUpTo(_, _)
\* the sequences over S of length at most n
SeqsUpTo(S, n) ==
    IF n = 0 THEN { <<>> }
    ELSE SeqsUpTo(S, n - 1) \cup
         { Append(q, x) : q \in { r \in SeqsUpTo(S, n - 1) : Len(r) = n - 1 }, x \in S }

Histories == SeqsUpTo(HistoryTurns, MaxHistory)

Payloads ==
    { JList(<< JGen(JStr("I keep you safe.")) >>),
      JList(<< JGen(JStr("")) >>),
      JGen(JStr("I keep you safe.")),
      JList(<< JGen(JNull) >>),
      JGen(JInt(5)),
      JList(<<>>),
      JList(<< JStr("") >>),
      JList(<< JStr("generated_text") >>),
      JList(<< JList(<< JStr("generated_text") >>) >>),
      JList(<< JInt(5) >>),
      JList(<< JNull >>),
      JList(<< JDict(TRUE) >>),
      JDict(TRUE),
      JDict(FALSE),
      JStr(""),
      JStr("Model is loading"),
      JNull,
      JInt(0) }

Remotes ==
    { RemoteRaise(""), RemoteRaise("Connection refused"),
      RemoteStatus(404), RemoteStatus(500), RemoteStatus(503),
      RemoteBadJson("Expecting value") }
    \cup { RemoteJson(v) : v \in Payloads }

\* the request thread that makes the calls of the sequential specifications
Callers == {"r1"}

\* the finished call hands its result to the caller; the thread is free again
Return(p) ==
    /\ pc[p] = "done"
    /\ pc' = [pc EXCEPT ![p] = "idle"]
    /\ loc' = [loc EXCEPT ![p] = NoLoc]
    /\ resp' = [resp EXCEPT ![p] = NoResp]
    /\ UNCHANGED <<flags, db, nextId, clock, http, emb_model>>

\* one call of llm_service.chat_with_part
ChatWithPart(p) ==
    /\ pc[p] = "idle"
    /\ \E part \in PartDicts, hist \in Histories, msg \in {"", "hi"}, remote \in Remotes :
        /\ loc' = [loc EXCEPT ![p] =
                    [op |-> "chat_with_part", part |-> part, conversation_history |-> hist,
                     user_message |-> msg, response |-> remote]]
        /\ http' = IF flags.REQUESTS_AVAILABLE
                   THEN [request |-> create_part_prompt(part, hist, msg)]
                   ELSE http
        /\ resp' = [resp EXCEPT ![p] =
                    [op |-> "chat_with_part", status |-> 0,
                     body |-> chat_with_part(part, hist, msg, remote)]]
    /\ pc' = [pc EXCEPT ![p] = "done"]
    /\ UNCHANGED <<flags, db, nextId, clock, emb_model>>

InitLLM ==
    /\ flags \in { f \in Flags : f.EMBEDDINGS_AVAILABLE /\ f.TRANSFORMERS_AVAILABLE
                                 /\ f.LLM_AVAILABLE /\ ~f.using_supabase }
    /\ InitCommon

NextLLM == \E p \in Callers : ChatWithPart(p) \/ Return(p)

SpecLLM == InitLLM /\ [][NextLLM]_vars

\* the answers the code reads a reply out of: a non-empty list whose first
\* element is a dict with a str "generated_text", or such a dict itself
ExpectedShape(v) ==
    \/ /\ v.t = "list" /\ Len(v.items) > 0
       /\ v.items[1].t = "dict" /\ v.items[1].has_gt /\ v.items[1].gt[1].t = "str"
    \/ v.t = "dict" /\ v.has_gt /\ v.gt[1].t = "str"

\* the remote call failed: transport error, non-200 status, undecodable
\* body, or a 200 body of an unexpected shape
RemoteFailed(remote) ==
    \/ remote.kind \in {"post_raises", "status", "json_raises"}
    \/ remote.kind = "json" /\ ~ExpectedShape(remote.payload)

\* C1: whatever the part, history and user message, chat_with_part returns a
\* non-empty str when the remote call raises, answers non-200, or answers
\* 200 with a payload of unexpected shape.
C1_NonEmptyOnFailure ==
    \A p \in Procs :
        (resp[p].op = "chat_with_part" /\ RemoteFailed(loc[p].response))
            => (resp[p].body.t = "str" /\ Len(resp[p].body.s) > 0)

(***************************************************************************)
(* Model classes: what the handlers read from and build into rows          *)
(***************************************************************************)
\* Part.to_dict: the part without its system_id
Part_to_dict(part) ==
    [id |-> part.id, name |-> part.name, role |-> part.role,
     description |-> part.description, feelings |-> part.feelings,
     beliefs |-> part.beliefs, triggers |-> part.triggers, needs |-> part.needs]

\* PartConversation.to_dict
PartConversation_to_dict(c) ==
    [id |-> c.id, part_id |-> c.part_id, system_id |-> c.system_id, title |-> c.title]

\* ConversationMessage.to_dict
ConversationMessage_to_dict(m) ==
    [id |-> m.id, conversation_id |-> m.conversation_id, role |-> m.role,
     content |-> m.content, timestamp |-> m.timestamp]

\* PartConversation(part_id=..., title=...): a column that is not given is NULL
PartConversation(id, part_id, title) ==
    [id |-> id, part_id |-> part_id, system_id |-> None, title |-> title]

\* ConversationMessage(conversation_id=..., role=..., content=...)
ConversationMessage(id, conversation_id, role, content, embedding, timestamp) ==
    [id |-> id, conversation_id |-> conversation_id, role |-> role,
     content |-> content, embedding |-> embedding, timestamp |-> timestamp]

\* Model.query.get(id): the rows with that primary key (none or one)
QueryGet(rows, id) == { r \in rows : r.id = id }

\* part.system.user_id
OwnerOf(part) == (CHOOSE sys \in db.sql.systems : sys.id = part.system_id).user_id

\* jsonify(body), status
Json(op, status, body) == [op |-> op, status |-> status, body |-> body]

NewId(prefix) == prefix \o IntStr(nextId)

\* db.session.add(obj) ... db.session.commit(): an INSERT for a new object,
\* an UPDATE of the row with its primary key for one that is already stored
session_commit(rows, objs) ==
    { r \in rows : r.id \notin { o.id : o \in objs } } \cup objs

\* create_conversation without its ownership check
create_conversation_unchecked(part_id, current_user_id, request, commit_fails) ==
    LET found == QueryGet(db.sql.parts, part_id) IN
    IF found = {}
    THEN [status |-> 500, body |-> [error |-> "404 Not Found"], add |-> {}]
    ELSE
    LET part == CHOOSE x \in found : TRUE IN
    IF ~request.is_json
    THEN [status |-> 500, body |-> [error |-> "'NoneType' object has no attribute 'get'"], add |-> {}]
    ELSE
    LET conversation ==
            PartConversation(NewId("c"), part_id,
                DictGet(request.data, "title", "Conversation with " \o part.name))
    IN IF commit_fails
       THEN [status |-> 500, body |-> [error |-> "commit failed"], add |-> {}]
       ELSE [status |-> 201,
             body |-> [message |-> "Conversation created successfully",
                       conversation |-> PartConversation_to_dict(conversation)],
             add |-> {conversation}]

(***************************************************************************)
(* conversations.py: create_conversation                                   *)
(***************************************************************************)
\* The handler's outcome: the response and the rows it commits.  The whole
\* body sits in try/except Exception, so the NotFound that get_or_404
\* raises is answered by the except clause, like every other error.
create_conversation(part_id, current_user_id, request, commit_fails) ==
    LET found == QueryGet(db.sql.parts, part_id) IN
    IF found = {}
    THEN [status |-> 500, body |-> [error |-> "404 Not Found"], add |-> {}]
    ELSE
    LET part == CHOOSE x \in found : TRUE IN
    IF OwnerOf(part) # current_user_id
    THEN [status |-> 403, body |-> [error |-> "Unauthorized access"], add |-> {}]
    ELSE IF ~request.is_json
    THEN [status |-> 500, body |-> [error |-> "'NoneType' object has no attribute 'get'"], add |-> {}]
    ELSE
    LET conversation ==
            PartConversation(NewId("c"), part_id,
                DictGet(request.data, "title", "Conversation with " \o part.name))
    IN IF commit_fails
       THEN [status |-> 500, body |-> [error |-> "commit failed"], add |-> {}]
       ELSE [status |-> 201,
             body |-> [message |-> "Conversation created successfully",
                       conversation |-> PartConversation_to_dict(conversation)],
             add |-> {conversation}]

NoRequest == [is_json |-> FALSE, data |-> EmptyDict]
JsonRequest(data) == [is_json |-> TRUE, data |-> data]

PartIds == {"p1", "p2", "p9"}      \* p9 is the id of no part

CreateConversation(p) ==
    /\ pc[p] = "idle"
    /\ nextId <= MaxRows
    /\ \E part_id \in PartIds, user \in Users, commit_fails \in BOOLEAN,
          request \in {NoRequest, JsonRequest(EmptyDict)} :
        LET r == create_conversation(part_id, user, request, commit_fails) IN
        /\ db' = [db EXCEPT !.sql.part_conversations = session_commit(@, r.add)]
        /\ nextId' = IF r.add # {} THEN nextId + 1 ELSE nextId
        /\ loc' = [loc EXCEPT ![p] =
                    [op |-> "create_conversation", part_id |-> part_id,
                     current_user_id |-> user, request |-> request]]
        /\ resp' = [resp EXCEPT ![p] = Json("create_conversation", r.status, r.body)]
    /\ pc' = [pc EXCEPT ![p] = "done"]
    /\ UNCHANGED <<flags, clock, http, emb_model>>

(***************************************************************************)
(* conversations.py: add_message, in the three stretches between its two   *)
(* commits and the blocking generation call                                *)
(***************************************************************************)
HistoryLimit == 10

RECURSIVE OrderByTimestampDesc(_)
\* query.order_by(ConversationMessage.timestamp.desc()).all()
OrderByTimestampDesc(rows) ==
    IF rows = {} THEN <<>>
    ELSE LET newest == CHOOSE x \in rows : \A y \in rows : y.timestamp <= x.timestamp
         IN << newest >> \o OrderByTimestampDesc(rows \ {newest})

\* a query that leaves its LIMIT out
Limit_all(seq, n) == seq

\* .limit(n), LIMIT :limit
Limit(seq, n) == SubSeq(seq, 1, IF Len(seq) < n THEN Len(seq) ELSE n)

\* list.reverse()
Reverse(seq) == [i \in 1..Len(seq) |-> seq[Len(seq) + 1 - i]]

\* the history cut from the wrong end: the first HistoryLimit messages
conversation_history_oldest(conversation_id) ==
    LET rows == { m \in db.sql.conversation_messages : m.conversation_id = conversation_id }
        first == Limit(Reverse(OrderByTimestampDesc(rows)), HistoryLimit)
    IN [i \in 1..Len(first) |-> ConversationMessage_to_dict(first[i])]

\* the history add_message loads: the last HistoryLimit messages, oldest first
conversation_history(conversation_id) ==
    LET rows == { m \in db.sql.conversation_messages : m.conversation_id = conversation_id }
        last == Limit(OrderByTimestampDesc(rows), HistoryLimit)
    IN Reverse([i \in 1..Len(last) |-> ConversationMessage_to_dict(last[i])])

\* the embedding step shared by both messages (lines 198-204, 235-241):
\* the value left on the message's embedding attribute
attach_embedding(text, enc) ==
    IF flags.EMBEDDINGS_AVAILABLE /\ ~generate_embedding(text, enc).raised
    THEN generate_embedding(text, enc).value
    ELSE NoEmbedding

\* the emptiness check left out
not_user_message_accepts_all(user_message) == FALSE

\* `if not user_message:` (line 188)
not_user_message(user_message) == user_message = ""

\* did the except clause of the embedding step run?
embedding_raised(text, enc) ==
    flags.EMBEDDINGS_AVAILABLE /\ generate_embedding(text, enc).raised

\* add_message up to and including the commit of the user message (lines
\* 171-208).  status 0: the call goes on; otherwise it has returned.
add_message_begin(conversation_id, current_user_id, request, enc, commit_fails) ==
    LET found == QueryGet(db.sql.part_conversations, conversation_id)
        stop(status, error) ==
            [status |-> status, body |-> [error |-> error], add |-> {},
             embedded |-> FALSE, part |-> EmptyDict]
    IN
    IF found = {} THEN stop(500, "404 Not Found")
    ELSE
    LET conversation == CHOOSE c \in found : TRUE
        parts == QueryGet(db.sql.parts, conversation.part_id)
    IN
    IF parts = {} THEN stop(500, "'NoneType' object has no attribute 'system'")
    ELSE
    LET part == CHOOSE x \in parts : TRUE IN
    IF OwnerOf(part) # current_user_id THEN stop(403, "Unauthorized access")
    ELSE IF ~request.is_json THEN stop(500, "'NoneType' object has no attribute 'get'")
    ELSE
    LET user_message == DictGet(request.data, "message", "") IN
    IF not_user_message(user_message) THEN stop(400, "Message cannot be empty")
    ELSE
    LET user_message_obj ==
            ConversationMessage(NewId("m"), conversation_id, "user", user_message,
                                attach_embedding(user_message, enc), clock)
    IN IF commit_fails
       THEN [status |-> 500, body |-> [error |-> "commit failed"], add |-> {},
             embedded |-> flags.EMBEDDINGS_AVAILABLE, part |-> part]
       ELSE [status |-> 0, body |-> EmptyDict, add |-> {user_message_obj},
             embedded |-> flags.EMBEDDINGS_AVAILABLE, part |-> part]

\* the ids a caller can name: those of the stored conversations and c99,
\* the id of no conversation
ConversationIds == { c.id : c \in db.sql.part_conversations } \cup {"c99"}

MessageRequests ==
    { NoRequest, JsonRequest(EmptyDict), JsonRequest([message |-> ""]),
      JsonRequest([message |-> "I feel anxious"]) }

AddMessageBegin(p) ==
    /\ pc[p] = "idle"
    /\ nextId <= MaxRows
    /\ \E conversation_id \in ConversationIds, user \in Users, request \in MessageRequests,
          enc \in EncoderBehaviours, commit_fails \in BOOLEAN :
        LET r == add_message_begin(conversation_id, user, request, enc, commit_fails) IN
        /\ db' = [db EXCEPT !.sql.conversation_messages = session_commit(@, r.add)]
        /\ nextId' = IF r.add # {} THEN nextId + 1 ELSE nextId
        /\ clock' = IF r.add # {} THEN clock + 1 ELSE clock
        /\ emb_model' = IF r.embedded THEN model_after(enc) ELSE emb_model
        /\ IF r.status = 0
           THEN /\ pc' = [pc EXCEPT ![p] = "am_generate"]
                /\ resp' = [resp EXCEPT ![p] = NoResp]
                /\ loc' = [loc EXCEPT ![p] =
                            [op |-> "add_message", conversation_id |-> conversation_id,
                             current_user_id |-> user, request |-> request,
                             part |-> r.part,
                             user_message |-> DictGet(request.data, "message", ""),
                             user_message_obj |-> CHOOSE m \in r.add : TRUE,
                             embed_raised |-> embedding_raised(DictGet(request.data, "message", ""), enc)]]
           ELSE /\ pc' = [pc EXCEPT ![p] = "done"]
                /\ resp' = [resp EXCEPT ![p] = Json("add_message", r.status, r.body)]
                /\ loc' = [loc EXCEPT ![p] =
                            [op |-> "add_message", conversation_id |-> conversation_id,
                             current_user_id |-> user, request |-> request]]
    /\ UNCHANGED <<flags, http>>

\* the remote behaviours the handler is run against: those for which
\* chat_with_part returns a str
HandlerRemotes ==
    { RemoteRaise("Connection refused"), RemoteStatus(503),
      RemoteJson(JList(<< JGen(JStr("I keep you safe.")) >>)),
      RemoteJson(JList(<< JGen(JStr("")) >>)) }

Unavailable == "I cannot respond right now. The chat service is unavailable."

\* lines 210-226: load the history, then ask the part for its reply.  The
\* try/except around chat_with_part has nothing to catch here: with str
\* attributes chat_with_part has no raising path.
AddMessageGenerate(p) ==
    /\ pc[p] = "am_generate"
    /\ \E remote \in HandlerRemotes, query_fails \in BOOLEAN :
        IF query_fails
        THEN /\ pc' = [pc EXCEPT ![p] = "done"]
             /\ resp' = [resp EXCEPT ![p] = Json("add_message", 500, [error |-> "query failed"])]
             /\ UNCHANGED <<loc, http>>
        ELSE LET history == conversation_history(loc[p].conversation_id)
                 part == Part_to_dict(loc[p].part)
                 um == loc[p].user_message
             IN /\ pc' = [pc EXCEPT ![p] = "am_reply"]
                /\ loc' = [loc EXCEPT ![p] =
                            [op |-> "add_message", conversation_id |-> loc[p].conversation_id,
                             current_user_id |-> loc[p].current_user_id,
                             request |-> loc[p].request, part |-> loc[p].part,
                             user_message |-> um,
                             user_message_obj |-> loc[p].user_message_obj,
                             embed_raised |-> loc[p].embed_raised,
                             history |-> history,
                             response |-> remote,
                             part_response |->
                                IF flags.LLM_AVAILABLE
                                THEN chat_with_part(part, history, um, remote).s
                                ELSE Unavailable]]
                /\ http' = IF flags.LLM_AVAILABLE /\ flags.REQUESTS_AVAILABLE
                           THEN [request |-> create_part_prompt(part, history, um)]
                           ELSE http
                /\ UNCHANGED resp
    /\ UNCHANGED <<flags, db, nextId, clock, emb_model>>

\* the reply step also embedding the user message that is already stored
add_message_reply_retrofits(l, enc, commit_fails) ==
    LET part_message ==
            ConversationMessage(NewId("m"), l.conversation_id, "part", l.part_response,
                                attach_embedding(l.part_response, enc), clock)
        user_message_obj ==
            [l.user_message_obj EXCEPT !.embedding = attach_embedding(l.user_message, enc)]
        refused == QueryGet(db.sql.part_conversations, l.conversation_id) = {}
    IN IF commit_fails \/ refused
       THEN [status |-> 500, body |-> [error |-> "commit failed"], add |-> {}]
       ELSE [status |-> 201,
             body |-> [user_message |-> ConversationMessage_to_dict(user_message_obj),
                       part_response |-> ConversationMessage_to_dict(part_message)],
             add |-> {part_message, user_message_obj}]

\* lines 228-251: build the part's message, embed it, commit, answer 201
add_message_reply(l, enc, commit_fails) ==
    LET part_message ==
            ConversationMessage(NewId("m"), l.conversation_id, "part", l.part_response,
                                attach_embedding(l.part_response, enc), clock)
        \* conversation_id REFERENCES the conversation: the insert of a message
        \* whose conversation is gone is refused at the commit
        refused == QueryGet(db.sql.part_conversations, l.conversation_id) = {}
    IN IF commit_fails \/ refused
       THEN [status |-> 500, body |-> [error |-> "commit failed"], add |-> {}]
       ELSE [status |-> 201,
             body |-> [user_message |-> ConversationMessage_to_dict(l.user_message_obj),
                       part_response |-> ConversationMessage_to_dict(part_message)],
             add |-> {part_message}]

AddMessageReply(p) ==
    /\ pc[p] = "am_reply"
    /\ \E enc \in EncoderBehaviours, commit_fails \in BOOLEAN :
        LET r == add_message_reply(loc[p], enc, commit_fails) IN
        /\ db' = [db EXCEPT !.sql.conversation_messages = session_commit(@, r.add)]
        /\ nextId' = IF r.add # {} THEN nextId + 1 ELSE nextId
        /\ clock' = IF r.add # {} THEN clock + 1 ELSE clock
        /\ emb_model' = IF flags.EMBEDDINGS_AVAILABLE THEN model_after(enc) ELSE emb_model
        /\ resp' = [resp EXCEPT ![p] = Json("add_message", r.status, r.body)]
    /\ pc' = [pc EXCEPT ![p] = "done"]
    /\ UNCHANGED <<flags, loc, http>>

(***************************************************************************)
(* Direct calls of the embedding_manager singleton                         *)
(***************************************************************************)
EmbedTexts == {"I am stressed", "What is your favorite color?"}

GenerateEmbedding(p) ==
    /\ pc[p] = "idle"
    /\ \E text \in EmbedTexts, enc \in EncoderBehaviours :
        /\ loc' = [loc EXCEPT ![p] = [op |-> "generate_embedding", text |-> text]]
        /\ resp' = [resp EXCEPT ![p] =
                    Json("generate_embedding", 0, generate_embedding(text, enc))]
        /\ emb_model' = model_after(enc)
    /\ pc' = [pc EXCEPT ![p] = "done"]
    /\ UNCHANGED <<flags, db, nextId, clock, http>>

GenerateEmbeddings(p) ==
    /\ pc[p] = "idle"
    /\ \E texts \in SeqsUpTo(EmbedTexts, 2), enc \in EncoderBehaviours :
        /\ loc' = [loc EXCEPT ![p] = [op |-> "generate_embeddings", texts |-> texts]]
        /\ resp' = [resp EXCEPT ![p] =
                    Json("generate_embeddings", 0, generate_embeddings(texts, enc))]
        /\ emb_model' = model_after(enc)
    /\ pc' = [pc EXCEPT ![p] = "done"]
    /\ UNCHANGED <<flags, db, nextId, clock, http>>

GetPartEmbedding(p) ==
    /\ pc[p] = "idle"
    /\ \E part \in db.sql.parts, enc \in EncoderBehaviours :
        /\ loc' = [loc EXCEPT ![p] = [op |-> "get_part_embedding", part |-> Part_to_dict(part)]]
        /\ resp' = [resp EXCEPT ![p] =
                    Json("get_part_embedding", 0, get_part_embedding(Part_to_dict(part), enc))]
        /\ emb_model' = model_after(enc)
    /\ pc' = [pc EXCEPT ![p] = "done"]
    /\ UNCHANGED <<flags, db, nextId, clock, http>>

\* the handlers of conversations.py use db.session whatever the backend switch
InitHandlers == flags \in { f \in Flags : ~f.using_supabase } /\ InitCommon

Next ==
    \E p \in Callers :
        \/ CreateConversation(p)
        \/ AddMessageBegin(p)
        \/ AddMessageGenerate(p)
        \/ AddMessageReply(p)
        \/ GenerateEmbedding(p)
        \/ GenerateEmbeddings(p)
        \/ GetPartEmbedding(p)
        \/ Return(p)

Spec == InitHandlers /\ [][Next]_vars

(***************************************************************************)
(* Properties of add_message and create_conversation                       *)
(***************************************************************************)
Messages == db.sql.conversation_messages

\* thread p takes the first step of a call of op
Begins(p, op) == pc[p] = "idle" /\ pc'[p] # "idle" /\ loc'[p].op = op

\* the call recorded in l names a stored conversation of a part whose
\* system belongs to the caller
OwnedConversation(l) ==
    \E c \in db.sql.part_conversations : \E part \in db.sql.parts :
        /\ c.id = l.conversation_id
        /\ part.id = c.part_id
        /\ OwnerOf(part) = l.current_user_id

EmptyContent(l) == l.request.is_json /\ DictGet(l.request.data, "message", "") = ""
ValidContent(l) == l.request.is_json /\ DictGet(l.request.data, "message", "") # ""

\* C2: add_message with empty or missing message content on an existing
\* conversation owned by the caller answers 400 and leaves every table as
\* it was.
C2_EmptyContentPersistsNothing ==
    [][ \A p \in Procs :
          (Begins(p, "add_message") /\ OwnedConversation(loc'[p]) /\ EmptyContent(loc'[p]))
             => /\ pc'[p] = "done"
                /\ resp'[p].status = 400
                /\ resp'[p].body = [error |-> "Message cannot be empty"]
                /\ db' = db ]_vars

C2_Witness ==
    \E p \in Procs :
        /\ pc[p] = "done" /\ loc[p].op = "add_message"
        /\ OwnedConversation(loc[p]) /\ EmptyContent(loc[p])
        /\ resp[p].status = 400
        /\ db.sql.conversation_messages # {}

\* the encoder or the embedding manager is not available in this process
EmbeddingUnavailable == ~flags.EMBEDDINGS_AVAILABLE \/ ~flags.TRANSFORMERS_AVAILABLE

\* C3: in add_message with non-empty content on an owned conversation the
\* user message is committed whatever the embedding step does; when
\* generate_embedding raised or the embedding service is unavailable it is
\* committed without an embedding, and the call goes on to the response step.
C3_PersistedWithoutEmbedding ==
    [][ \A p \in Procs :
          (/\ Begins(p, "add_message")
           /\ OwnedConversation(loc'[p]) /\ ValidContent(loc'[p])
           /\ resp'[p].status # 500)
             => /\ pc'[p] = "am_generate"
                /\ loc'[p].user_message_obj \in Messages'
                /\ loc'[p].user_message_obj \notin Messages
                /\ (loc'[p].embed_raised \/ EmbeddingUnavailable)
                      => loc'[p].user_message_obj.embedding = NoEmbedding ]_vars

\* the user message of the call thread p is running or has finished is committed
UserMessageCommitted(p) ==
    loc[p].op = "add_message" /\ "user_message_obj" \in DOMAIN loc[p]

\* C4: once add_message has committed the user message, the message stays
\* in storage and is part of what the call returns, whatever happens later
\* in the call.
C4_UserTurnKeptAndReturned ==
    \A p \in Procs :
        UserMessageCommitted(p)
            => /\ loc[p].user_message_obj \in Messages
               /\ pc[p] = "done"
                    => /\ "user_message" \in DOMAIN resp[p].body
                       /\ resp[p].body.user_message
                            = ConversationMessage_to_dict(loc[p].user_message_obj)

\* the generation of the assistant turn failed: no request could be sent,
\* the transport raised, or the backend answered with a non-200 status
GenerationFailed(l) ==
    \/ ~flags.REQUESTS_AVAILABLE
    \/ l.response.kind \in {"post_raises", "status", "json_raises"}

\* the answer of a fully successful turn: 201 with the two messages
OrdinaryReply(r) ==
    /\ r.status = 201
    /\ DOMAIN r.body = {"user_message", "part_response"}

\* C5: when the user message is persisted and the generation failed, what
\* add_message returns is not the ordinary two-message success answer: it
\* carries a partial-failure marker.
C5_PartialFailureMarked ==
    \A p \in Procs :
        (/\ pc[p] = "done" /\ UserMessageCommitted(p)
         /\ flags.LLM_AVAILABLE
         /\ "response" \in DOMAIN loc[p]
         /\ GenerationFailed(loc[p]))
            => ~OrdinaryReply(resp[p])

\* C6: with LLM_AVAILABLE false, add_message adds no assistant-role message
\* and returns the user message without a reply.
C6_NoReplyWhenDisabled ==
    ~flags.LLM_AVAILABLE
        => /\ \A m \in Messages : m.role = "user"
           /\ \A p \in Procs :
                (pc[p] = "done" /\ UserMessageCommitted(p) /\ resp[p].status = 201)
                    => "part_response" \notin DOMAIN resp[p].body

EmbeddingOps == {"generate_embedding", "generate_embeddings", "get_part_embedding"}

\* C7: with the encoder unavailable the three embedding functions signal
\* the failure and return no all-zero vector, and no all-zero vector is
\* stored on a message or a personality vector.
C7_NoZeroVector ==
    /\ \A p \in Procs :
        (pc[p] = "done" /\ loc[p].op \in EmbeddingOps /\ ~flags.TRANSFORMERS_AVAILABLE)
            => resp[p].body.raised
    /\ \A m \in Messages : m.embedding # ZeroVector
    /\ \A v \in db.sql.part_personality_vectors : v.embedding # ZeroVector

\* C8: create_conversation for the id of no part and add_message for the id
\* of no conversation answer not-found (404), which is neither the
\* validation answer (400) nor the internal-error answer (500), and commit
\* nothing.
C8_NotFoundDistinct ==
    [][ \A p \in Procs :
          /\ (Begins(p, "create_conversation")
              /\ QueryGet(db.sql.parts, loc'[p].part_id) = {})
                => (resp'[p].status = 404 /\ db' = db)
          /\ (Begins(p, "add_message")
              /\ QueryGet(db.sql.part_conversations, loc'[p].conversation_id) = {})
                => (resp'[p].status = 404 /\ db' = db) ]_vars

(***************************************************************************)
(* DBAdapter (utils/db_adapter.py)                                         *)
(***************************************************************************)
\* Python values an adapter call returns
PyNone == [t |-> "NoneType"]
PyDict(row) == [t |-> "dict", v |-> row]
PyList(rows) == [t |-> "list", v |-> rows]
PyBool(b) == [t |-> "bool", v |-> b]

\* the store DBAdapter talks to: self.using_supabase, fixed in __init__
Backend == IF flags.using_supabase THEN "supabase" ELSE "sql"

\* current_app.db_adapter, the one DBAdapter of the process
db_adapter == [using_supabase |-> flags.using_supabase]

\* the store an adapter reads and writes, and one of its tables
StoreOf(self) == IF self.using_supabase THEN "supabase" ELSE "sql"
Table(self, table) == db[StoreOf(self)][table]

\* DBAdapter._model_to_dict: every model class has to_dict
model_to_dict(table, row) ==
    CASE table = "parts" -> Part_to_dict(row)
      [] table = "part_conversations" -> PartConversation_to_dict(row)
      [] table = "conversation_messages" -> ConversationMessage_to_dict(row)

\* the shape a record leaves the adapter in: to_dict on the relational
\* backend, the raw response.data row on the remote one
Record(self, table, row) ==
    IF self.using_supabase THEN row ELSE model_to_dict(table, row)

\* The point of a call at which the backend raises: "none", "read" (a
\* query or a remote execute raises) or "write" (the commit, or the remote
\* execute of a mutation, raises)
Faults == {"none", "read", "write"}

\* the except clauses: log, roll back on the relational backend, and return
\* the operation's empty value.  changed is the table after the call.
except_get_by_id(self, table) == [raised |-> FALSE, value |-> PyNone, changed |-> Table(self, table)]
except_get_all(self, table) == [raised |-> FALSE, value |-> PyList({}), changed |-> Table(self, table)]
except_create(self, table) == [raised |-> FALSE, value |-> PyNone, changed |-> Table(self, table)]
except_update(self, table) == [raised |-> FALSE, value |-> PyNone, changed |-> Table(self, table)]
\* the except clause of delete reporting success
except_delete_true(self, table) == [raised |-> FALSE, value |-> PyBool(TRUE), changed |-> Table(self, table)]

except_delete(self, table) == [raised |-> FALSE, value |-> PyBool(FALSE), changed |-> Table(self, table)]
except_query_vector_similarity(self, table) ==
    [raised |-> FALSE, value |-> PyList(<<>>), changed |-> Table(self, table)]

Returns(self, table, value) ==
    [raised |-> FALSE, value |-> value, changed |-> Table(self, table)]

\* DBAdapter.get_by_id
get_by_id(self, table, id_value, fault) ==
    IF fault # "none" THEN except_get_by_id(self, table)
    ELSE LET found == QueryGet(Table(self, table), id_value) IN
         IF found = {} THEN Returns(self, table, PyNone)
         ELSE Returns(self, table, PyDict(Record(self, table, CHOOSE r \in found : TRUE)))

\* does row satisfy every equality of filter_dict?
Matches(row, filter_dict) ==
    \A k \in DOMAIN filter_dict : k \in DOMAIN row /\ row[k] = filter_dict[k]

\* DBAdapter.get_all; the list is carried as the set of its records, its
\* order being the backend's.  A filter on a name that is no column raises
\* (getattr on the model class, an unknown column remotely).
get_all(self, table, filter_dict, columns, fault) ==
    IF fault # "none" \/ ~(DOMAIN filter_dict \subseteq columns) THEN except_get_all(self, table)
    ELSE Returns(self, table,
            PyList({ Record(self, table, r) : r \in { x \in Table(self, table) : Matches(x, filter_dict) } }))

PartColumns ==
    {"id", "system_id", "name", "role", "description", "feelings", "beliefs", "triggers", "needs"}
ConversationColumns == {"id", "part_id", "system_id", "title"}
Columns(table) == IF table = "parts" THEN PartColumns ELSE ConversationColumns

\* Part.__init__ takes name, system_id, role, description and feelings
PartInitArgs == {"name", "system_id", "role", "description", "feelings"}

\* model_class(**data) raises TypeError
ConstructorRaises(table, data) ==
    IF table = "parts"
    THEN ~(DOMAIN data \subseteq PartInitArgs) \/ ~({"name", "system_id"} \subseteq DOMAIN data)
    ELSE ~(DOMAIN data \subseteq ConversationColumns)

\* the remote insert is refused: unknown column or a NOT NULL column left out
InsertRefused(table, data) ==
    \/ ~(DOMAIN data \subseteq Columns(table))
    \/ table = "parts" /\ ~({"name", "system_id"} \subseteq DOMAIN data)
    \/ table = "parts" /\ (data.name = None \/ data.system_id = None)
    \/ table = "part_conversations" /\ ~({"title", "system_id"} \subseteq DOMAIN data)
    \/ table = "part_conversations" /\ (data.title = None \/ data.system_id = None)

\* the row a create stores: the given fields, the others at their defaults
NewRow(self, table, data) ==
    IF table = "parts"
    THEN [id |-> NewId("n"), system_id |-> data.system_id, name |-> data.name,
          role |-> DictGet(data, "role", None),
          description |-> DictGet(data, "description", IF self.using_supabase THEN None ELSE ""),
          feelings |-> DictGet(data, "feelings", <<>>),
          beliefs |-> DictGet(data, "beliefs", <<>>),
          triggers |-> DictGet(data, "triggers", <<>>),
          needs |-> DictGet(data, "needs", <<>>)]
    ELSE [id |-> NewId("c"), part_id |-> DictGet(data, "part_id", None),
          system_id |-> DictGet(data, "system_id", None),
          title |-> DictGet(data, "title", None)]

\* the except clause without its rollback: what the session flushed stays
rollback_keeps(before, flushed) == flushed

\* self.db.session.rollback() in the except clauses (lines 145, 179, 208):
\* the session gives up what it flushed since the last commit, and later
\* reads see the table as it was
rollback(before, flushed) == before

\* DBAdapter.create
create(self, table, data, fault) ==
    IF self.using_supabase
    THEN IF fault # "none" \/ InsertRefused(table, data) THEN except_create(self, table)
         ELSE [raised |-> FALSE, value |-> PyDict(NewRow(self, table, data)),
               changed |-> Table(self, table) \cup {NewRow(self, table, data)}]
    ELSE IF ConstructorRaises(table, data) THEN except_create(self, table)
         ELSE IF fault # "none"
         THEN [except_create(self, table) EXCEPT
                  !.changed = rollback(Table(self, table),
                                       Table(self, table) \cup {NewRow(self, table, data)})]
         ELSE [raised |-> FALSE, value |-> PyDict(model_to_dict(table, NewRow(self, table, data))),
               changed |-> Table(self, table) \cup {NewRow(self, table, data)}]

\* setattr(record, key, value) for every item of data: a key that is no
\* column leaves the stored row as it is
Updated(row, data) == [k \in DOMAIN row |-> IF k \in DOMAIN data THEN data[k] ELSE row[k]]

\* the names of a model class that are relationships: setattr of a plain
\* value on one of them raises
Relationships(table) == IF table = "parts" THEN {"system"} ELSE {"part"}

\* the loop of lines 171-172 raises at a relationship key, the last item of data
SetattrRaises(table, data) == DOMAIN data \cap Relationships(table) # {}

\* the items of data the loop has set when it raises
SetBefore(table, data) ==
    [k \in DOMAIN data \ Relationships(table) |-> data[k]]

\* DBAdapter.update
update(self, table, id_value, data, fault) ==
    LET found == QueryGet(Table(self, table), id_value) IN
    IF fault = "read" THEN except_update(self, table)
    ELSE IF found = {} THEN Returns(self, table, PyNone)
    ELSE
    LET old == CHOOSE r \in found : TRUE
        new == Updated(old, data)
        replaced(row) == (Table(self, table) \ {old}) \cup {row}
    IN
    IF self.using_supabase
    THEN IF fault = "write" \/ ~(DOMAIN data \subseteq Columns(table))
         THEN except_update(self, table)
         ELSE [raised |-> FALSE, value |-> PyDict(new), changed |-> replaced(new)]
    ELSE IF SetattrRaises(table, data)
         THEN [except_update(self, table) EXCEPT
                  !.changed = rollback(Table(self, table),
                                       replaced(Updated(old, SetBefore(table, data))))]
         ELSE IF fault = "write"
         THEN [except_update(self, table) EXCEPT
                  !.changed = rollback(Table(self, table), replaced(new))]
         ELSE [raised |-> FALSE, value |-> PyDict(model_to_dict(table, new)),
               changed |-> replaced(new)]

\* DBAdapter.delete
delete(self, table, id_value, fault) ==
    LET found == QueryGet(Table(self, table), id_value) IN
    IF fault = "read" THEN except_delete(self, table)
    ELSE IF found = {} THEN Returns(self, table, PyBool(FALSE))
    ELSE IF fault = "write"
    THEN IF self.using_supabase THEN except_delete(self, table)
         ELSE [except_delete(self, table) EXCEPT
                  !.changed = rollback(Table(self, table), Table(self, table) \ found)]
    ELSE [raised |-> FALSE, value |-> PyBool(TRUE), changed |-> Table(self, table) \ found]

\* The referential actions of the schema on the rows that leave a table:
\* conversation_messages.conversation_id and part_personality_vectors.part_id
\* are ON DELETE CASCADE, part_conversations.part_id is ON DELETE SET NULL
on_delete(tables, table, ids) ==
    CASE table = "part_conversations" ->
            [tables EXCEPT !.conversation_messages = { m \in @ : m.conversation_id \notin ids }]
      [] table = "parts" ->
            [tables EXCEPT
                !.part_conversations =
                    { IF c.part_id \in ids THEN [c EXCEPT !.part_id = None] ELSE c : c \in @ },
                !.part_personality_vectors = { v \in @ : v.part_id \notin ids }]
      [] OTHER -> tables

\* a store after a call has left `changed` as the rows of one table
Stored(tables, table, changed) ==
    on_delete([tables EXCEPT ![table] = changed], table,
              { r.id : r \in tables[table] } \ { r.id : r \in changed })

\* `<->` up to the square root: the squared L2 distance, which orders
\* vectors as the L2 distance does
Distance(a, b) ==
    LET sq(i) == (a[i] - b[i]) * (a[i] - b[i])
        sum[i \in 0..EmbDim] == IF i = 0 THEN 0 ELSE sum[i - 1] + sq(i)
    IN sum[EmbDim]

RECURSIVE OrderByDistance(_, _)
\* ORDER BY embedding <-> :query_vector
OrderByDistance(rows, query_vector) ==
    IF rows = {} THEN <<>>
    ELSE LET nearest == CHOOSE x \in rows :
                \A y \in rows : Distance(x.embedding, query_vector)
                                    <= Distance(y.embedding, query_vector)
         IN << nearest >> \o OrderByDistance(rows \ {nearest}, query_vector)

\* DBAdapter.query_vector_similarity: SELECT *, distance on the relational
\* backend; the id and distance columns of the vector_search function on
\* the remote one
query_vector_similarity(self, table, query_vector, limit, fault) ==
    IF fault # "none" \/ Len(query_vector) # EmbDim
    THEN except_query_vector_similarity(self, table)
    ELSE LET hits == Limit(OrderByDistance({ r \in Table(self, table) : r.embedding # NoEmbedding },
                                           query_vector), limit)
             out(r) == IF self.using_supabase
                       THEN [id |-> r.id, distance |-> Distance(r.embedding, query_vector)]
                       ELSE [id |-> r.id, conversation_id |-> r.conversation_id,
                             role |-> r.role, content |-> r.content,
                             embedding |-> r.embedding, timestamp |-> r.timestamp,
                             distance |-> Distance(r.embedding, query_vector)]
         IN Returns(self, table, PyList([i \in 1..Len(hits) |-> out(hits[i])]))

(***************************************************************************)
(* parts.py: create_part_conversation, on top of the adapter               *)
(***************************************************************************)
\* `if not part` / `if not conversation`: None and the empty dict are falsy
Falsy(value) == value.t = "NoneType" \/ (value.t = "dict" /\ DOMAIN value.v = {})

create_part_conversation(part_id, request, fault1, fault2) ==
    LET part == get_by_id(db_adapter, "parts", part_id, fault1).value
        unchanged == Table(db_adapter, "part_conversations")
    IN
    IF Falsy(part)
    THEN [status |-> 404, body |-> [error |-> "Part not found"], changed |-> unchanged]
    ELSE IF ~request.is_json
    THEN [status |-> 500, body |-> [error |-> "An error occurred while creating the conversation"],
          changed |-> unchanged]
    ELSE
    LET title == DictGet(request.data, "title",
                         "Conversation with " \o DictGet(part.v, "name", "Part"))
        conversation_data ==
            [title |-> title, part_id |-> part_id,
             system_id |-> DictGet(part.v, "system_id", None)]
        created == create(db_adapter, "part_conversations", conversation_data, fault2)
    IN IF Falsy(created.value)
       THEN [status |-> 500, body |-> [error |-> "Failed to create conversation"],
             changed |-> created.changed]
       ELSE [status |-> 201, body |-> [conversation |-> created.value.v],
             changed |-> created.changed]

CreatePartConversation(p) ==
    /\ pc[p] = "idle"
    /\ nextId <= MaxRows
    /\ \E part_id \in PartIds, fault1 \in Faults, fault2 \in Faults,
          request \in {NoRequest, JsonRequest(EmptyDict)} :
        LET r == create_part_conversation(part_id, request, fault1, fault2) IN
        /\ db' = [db EXCEPT ![Backend].part_conversations = r.changed]
        /\ nextId' = IF r.changed # Table(db_adapter, "part_conversations") THEN nextId + 1 ELSE nextId
        /\ loc' = [loc EXCEPT ![p] =
                    [op |-> "create_part_conversation", part_id |-> part_id,
                     request |-> request]]
        /\ resp' = [resp EXCEPT ![p] = Json("create_part_conversation", r.status, r.body)]
    /\ pc' = [pc EXCEPT ![p] = "done"]
    /\ UNCHANGED <<flags, clock, http, emb_model>>

(***************************************************************************)
(* SpecAdapter: single DBAdapter calls and the two create-conversation     *)
(* handlers, on either backend                                             *)
(***************************************************************************)
AdapterTables == {"parts", "part_conversations"}

\* the ids a caller can name for a table: the stored ones and x9, the id of no row
IdsOf(table) == { r.id : r \in Table(db_adapter, table) } \cup {"x9"}

\* the call of p returns r: record it and store the table it leaves
Finish(p, op, table, args, r) ==
    /\ db' = [db EXCEPT ![Backend] = Stored(@, table, r.changed)]
    /\ loc' = [loc EXCEPT ![p] = [op |-> op, table |-> table, args |-> args]]
    /\ resp' = [resp EXCEPT ![p] = [op |-> op, status |-> 0, raised |-> r.raised, body |-> r.value]]
    /\ pc' = [pc EXCEPT ![p] = "done"]

AdapterGetById(p) ==
    /\ pc[p] = "idle"
    /\ \E table \in AdapterTables, fault \in Faults :
        \E id_value \in IdsOf(table) :
            Finish(p, "get_by_id", table, [id_value |-> id_value, fault |-> fault],
                   get_by_id(db_adapter, table, id_value, fault))
    /\ UNCHANGED <<flags, nextId, clock, http, emb_model>>

Filters == { EmptyDict, [system_id |-> "s1"], [part_id |-> "p1"], [colour |-> "red"] }

AdapterGetAll(p) ==
    /\ pc[p] = "idle"
    /\ \E table \in AdapterTables, fault \in Faults, filter_dict \in Filters :
        Finish(p, "get_all", table, [filter_dict |-> filter_dict, fault |-> fault],
               get_all(db_adapter, table, filter_dict, Columns(table), fault))
    /\ UNCHANGED <<flags, nextId, clock, http, emb_model>>

CreateData(table) ==
    IF table = "parts"
    THEN { [name |-> "Scout", system_id |-> "s1"],
           [name |-> "Scout", system_id |-> "s1", beliefs |-> <<"I must watch">>],
           [name |-> "Scout"] }
    ELSE { [title |-> "Morning talk", part_id |-> "p1", system_id |-> "s1"] }

AdapterCreate(p) ==
    /\ pc[p] = "idle"
    /\ nextId <= MaxRows
    /\ \E table \in AdapterTables, fault \in Faults :
        \E data \in CreateData(table) :
            LET r == create(db_adapter, table, data, fault) IN
            /\ Finish(p, "create", table, [data |-> data, fault |-> fault], r)
            /\ nextId' = IF r.changed # Table(db_adapter, table) THEN nextId + 1 ELSE nextId
    /\ UNCHANGED <<flags, clock, http, emb_model>>

UpdateData(table) ==
    IF table = "parts"
    THEN { [role |-> "Manager"], [role |-> "Manager", colour |-> "red"],
           [role |-> "Manager", system |-> "s2"] }
    ELSE { [title |-> "Renamed"] }

\* the rows an update is tried on: the first part, the first conversation
\* and x9, the id of no row
UpdateIds(table) == IF table = "parts" THEN {"p1", "x9"} ELSE {"c0", "x9"}

AdapterUpdate(p) ==
    /\ pc[p] = "idle"
    /\ \E table \in AdapterTables, fault \in Faults :
        \E id_value \in UpdateIds(table), data \in UpdateData(table) :
            Finish(p, "update", table,
                   [id_value |-> id_value, data |-> data, fault |-> fault],
                   update(db_adapter, table, id_value, data, fault))
    /\ UNCHANGED <<flags, nextId, clock, http, emb_model>>

AdapterDelete(p) ==
    /\ pc[p] = "idle"
    /\ \E fault \in Faults, id_value \in IdsOf("part_conversations") :
        Finish(p, "delete", "part_conversations", [id_value |-> id_value, fault |-> fault],
               delete(db_adapter, "part_conversations", id_value, fault))
    /\ UNCHANGED <<flags, nextId, clock, http, emb_model>>

QueryVectors == { Encode("I am stressed"), Encode("hi"), <<1>> }

AdapterQueryVectorSimilarity(p) ==
    /\ pc[p] = "idle"
    /\ \E fault \in Faults, query_vector \in QueryVectors, limit \in {1, 5} :
        Finish(p, "query_vector_similarity", "conversation_messages",
               [query_vector |-> query_vector, limit |-> limit, fault |-> fault],
               query_vector_similarity(db_adapter, "conversation_messages", query_vector, limit, fault))
    /\ UNCHANGED <<flags, nextId, clock, http, emb_model>>

\* a store that already holds a conversation of p1 and three of its messages
AdapterTablesSeed ==
    [SeedTables EXCEPT
        !.part_conversations =
            { [id |-> "c0", part_id |-> "p1", system_id |-> "s1", title |-> "First talk"] },
        !.conversation_messages =
            { ConversationMessage("m01", "c0", "user", "I am stressed", Encode("I am stressed"), 1),
              ConversationMessage("m02", "c0", "part", "I keep you safe.", NoEmbedding, 2),
              ConversationMessage("m03", "c0", "user", "hi", Encode("hi"), 3) }]

InitAdapter ==
    /\ flags \in { f \in Flags : f.EMBEDDINGS_AVAILABLE /\ f.TRANSFORMERS_AVAILABLE
                                 /\ f.LLM_AVAILABLE /\ f.REQUESTS_AVAILABLE }
    /\ db = [sql |-> AdapterTablesSeed, supabase |-> AdapterTablesSeed]
    /\ nextId = 1
    /\ clock = 4
    /\ pc = [p \in Procs |-> "idle"]
    /\ loc = [p \in Procs |-> NoLoc]
    /\ resp = [p \in Procs |-> NoResp]
    /\ http = NoHttp
    /\ emb_model = None

NextAdapter ==
    \E p \in Callers :
        \/ AdapterGetById(p)
        \/ AdapterGetAll(p)
        \/ AdapterCreate(p)
        \/ AdapterUpdate(p)
        \/ AdapterDelete(p)
        \/ AdapterQueryVectorSimilarity(p)
        \/ CreatePartConversation(p)
        \/ CreateConversation(p)
        \/ Return(p)

SpecAdapter == InitAdapter /\ [][NextAdapter]_vars

AdapterOps == {"get_by_id", "get_all", "create", "update", "delete", "query_vector_similarity"}
CreateOps == {"create_conversation", "create_part_conversation"}

\* the conversations a step adds to one store
NewConversations(b) == db'[b].part_conversations \ db[b].part_conversations

\* C9: on either backend, the conversation that a create-conversation call
\* persists for an existing part carries the part's id and the system_id
\* of that part.
C9_ConversationScopedToSystem ==
    [][ \A p \in Procs :
          (Begins(p, "create_conversation") \/ Begins(p, "create_part_conversation"))
             => \A b \in {"sql", "supabase"} : \A c \in NewConversations(b) :
                    /\ c.part_id = loc'[p].part_id
                    /\ \E part \in db[b].parts :
                          part.id = c.part_id /\ c.system_id = part.system_id ]_vars

\* the value an operation returns when the backend failed
EmptyValue(op) ==
    CASE op \in {"get_by_id", "create", "update"} -> PyNone
      [] op = "get_all" -> PyList({})
      [] op = "query_vector_similarity" -> PyList(<<>>)
      [] op = "delete" -> PyBool(FALSE)

Mutations == {"create", "update", "delete"}

\* the mutation recorded in l failed at one of its steps: constructing the
\* record, setting a field, or the query or commit
MutationFailed(l) ==
    \/ l.args.fault # "none"
    \/ l.op = "create" /\ ConstructorRaises(l.table, l.args.data)
    \/ l.op = "update" /\ SetattrRaises(l.table, l.args.data)

\* C11: on the relational backend a DBAdapter create, update or delete that
\* fails at any step leaves every table as later reads saw it before the
\* call.
C11_FailedMutationRolledBack ==
    [][ \A p \in Procs :
          ( /\ \E op \in Mutations : Begins(p, op)
            /\ ~flags.using_supabase
            /\ MutationFailed(loc'[p]) )
             => db'.sql = db.sql ]_vars

\* an update of the stored part p1 that raised while setting its fields
C11_Witness ==
    \E p \in Procs :
        /\ pc[p] = "done" /\ loc[p].op = "update" /\ ~flags.using_supabase
        /\ loc[p].args.id_value = "p1" /\ loc[p].args.fault = "none"
        /\ SetattrRaises(loc[p].table, loc[p].args.data)
        /\ DOMAIN SetBefore(loc[p].table, loc[p].args.data) # {}
        /\ resp[p].body = PyNone

\* C12: after DBAdapter.create accepted a record, on either backend,
\* get_by_id with the id of the created record returns a record that has
\* every field of the given data, with the value given.
C12_CreateThenGetById ==
    \A p \in Procs :
        (pc[p] = "done" /\ loc[p].op = "create" /\ resp[p].body.t = "dict")
            => LET data == loc[p].args.data
                   got == get_by_id(db_adapter, loc[p].table, resp[p].body.v.id, "none").value
               IN /\ got.t = "dict"
                  /\ \A k \in DOMAIN data : k \in DOMAIN got.v /\ got.v[k] = data[k]

(***************************************************************************)
(* SpecBackends: the two backends of DBAdapter run side by side on the     *)
(* same calls over the same initial data                                   *)
(***************************************************************************)
SqlAdapter == [using_supabase |-> FALSE]
SupabaseAdapter == [using_supabase |-> TRUE]

\* the same call made on both adapters: r1 is the relational result, r2 the
\* remote one
SideBySide(p, op, table, args, r1, r2) ==
    /\ db' = [db EXCEPT !.sql = Stored(@, table, r1.changed),
                        !.supabase = Stored(@, table, r2.changed)]
    /\ loc' = [loc EXCEPT ![p] = [op |-> "side_by_side", call |-> op, table |-> table,
                                  args |-> args]]
    /\ resp' = [resp EXCEPT ![p] = [op |-> "side_by_side", status |-> 0,
                                    body |-> [sql |-> r1.value, supabase |-> r2.value]]]
    /\ pc' = [pc EXCEPT ![p] = "done"]

\* the ids both stores know for a table, and x9
SharedIds(table) == { r.id : r \in db.sql[table] \cup db.supabase[table] } \cup {"x9"}

SideGetById(p) ==
    /\ pc[p] = "idle"
    /\ \E table \in AdapterTables : \E id_value \in SharedIds(table) :
        SideBySide(p, "get_by_id", table, [id_value |-> id_value],
                   get_by_id(SqlAdapter, table, id_value, "none"),
                   get_by_id(SupabaseAdapter, table, id_value, "none"))
    /\ UNCHANGED <<flags, nextId, clock, http, emb_model>>

SideGetAll(p) ==
    /\ pc[p] = "idle"
    /\ \E table \in AdapterTables, filter_dict \in Filters :
        SideBySide(p, "get_all", table, [filter_dict |-> filter_dict],
                   get_all(SqlAdapter, table, filter_dict, Columns(table), "none"),
                   get_all(SupabaseAdapter, table, filter_dict, Columns(table), "none"))
    /\ UNCHANGED <<flags, nextId, clock, http, emb_model>>

SideCreate(p) ==
    /\ pc[p] = "idle"
    /\ nextId <= MaxRows
    /\ \E table \in AdapterTables : \E data \in CreateData(table) :
        LET r1 == create(SqlAdapter, table, data, "none")
            r2 == create(SupabaseAdapter, table, data, "none")
        IN /\ SideBySide(p, "create", table, [data |-> data], r1, r2)
           /\ nextId' = IF r1.changed # db.sql[table] \/ r2.changed # db.supabase[table]
                         THEN nextId + 1 ELSE nextId
    /\ UNCHANGED <<flags, clock, http, emb_model>>

SideUpdate(p) ==
    /\ pc[p] = "idle"
    /\ \E table \in AdapterTables :
        \E id_value \in UpdateIds(table), data \in UpdateData(table) :
            SideBySide(p, "update", table, [id_value |-> id_value, data |-> data],
                       update(SqlAdapter, table, id_value, data, "none"),
                       update(SupabaseAdapter, table, id_value, data, "none"))
    /\ UNCHANGED <<flags, nextId, clock, http, emb_model>>

SideDelete(p) ==
    /\ pc[p] = "idle"
    /\ \E id_value \in SharedIds("part_conversations") :
        SideBySide(p, "delete", "part_conversations", [id_value |-> id_value],
                   delete(SqlAdapter, "part_conversations", id_value, "none"),
                   delete(SupabaseAdapter, "part_conversations", id_value, "none"))
    /\ UNCHANGED <<flags, nextId, clock, http, emb_model>>

InitBackends ==
    /\ flags \in { f \in Flags : f.EMBEDDINGS_AVAILABLE /\ f.TRANSFORMERS_AVAILABLE
                                 /\ f.LLM_AVAILABLE /\ f.REQUESTS_AVAILABLE }
    /\ db = [sql |-> AdapterTablesSeed, supabase |-> AdapterTablesSeed]
    /\ nextId = 1
    /\ clock = 4
    /\ pc = [p \in Procs |-> "idle"]
    /\ loc = [p \in Procs |-> NoLoc]
    /\ resp = [p \in Procs |-> NoResp]
    /\ http = NoHttp
    /\ emb_model = None

NextBackends ==
    \E p \in Callers :
        \/ SideGetById(p)
        \/ SideGetAll(p)
        \/ SideCreate(p)
        \/ SideUpdate(p)
        \/ SideDelete(p)
        \/ Return(p)

SpecBackends == InitBackends /\ [][NextBackends]_vars

\* C13: the same call on the same data returns, on the relational and on
\* the remote-table backend, equal results: records with the same field
\* names and equal values.
C13_BackendsIndistinguishable ==
    \A p \in Procs :
        (pc[p] = "done" /\ loc[p].op = "side_by_side")
            => resp[p].body.sql = resp[p].body.supabase

(***************************************************************************)
(* The backend the conversation operations use                             *)
(***************************************************************************)
ConversationOps ==
    {"create_conversation", "create_part_conversation", "add_message",
     "generate_personality_vectors", "search_conversations", "find_similar_messages"}

\* the store SUPABASE_USE_FOR_DB did not select
OtherStore == IF flags.using_supabase THEN "sql" ELSE "supabase"

\* C14: no step of a conversation operation writes to the backend that
\* SUPABASE_USE_FOR_DB did not select.
C14_SelectedBackendOnly ==
    [][ \A p \in Procs :
          (pc'[p] # pc[p] /\ pc'[p] # "idle" /\ loc'[p].op \in ConversationOps)
             => db'[OtherStore] = db[OtherStore] ]_vars

(***************************************************************************)
(* conversations.py: search_conversations and find_similar_messages        *)
(***************************************************************************)
\* str.lower() of one character, for the letters the texts below use
Lower(c) ==
    CASE c = "A" -> "a" [] c = "E" -> "e" [] c = "H" -> "h" [] c = "I" -> "i"
      [] c = "S" -> "s" [] c = "T" -> "t" [] c = "W" -> "w"
      [] OTHER -> c

RECURSIVE ILike(_, _)
\* content ILIKE pattern: `%` stands for any run of characters, `_` for any
\* one character, every other character for itself whatever its case
ILike(content, pattern) ==
    IF pattern = "" THEN content = ""
    ELSE LET c == SubSeq(pattern, 1, 1)
             rest == SubSeq(pattern, 2, Len(pattern))
         IN IF c = "%"
            THEN \/ ILike(content, rest)
                 \/ content # "" /\ ILike(SubSeq(content, 2, Len(content)), pattern)
            ELSE /\ content # ""
                 /\ (c = "_" \/ Lower(SubSeq(content, 1, 1)) = Lower(c))
                 /\ ILike(SubSeq(content, 2, Len(content)), rest)

\* the join without its WHERE user_id = :user_id
JoinedMessages_anyone(user_id, part_id) ==
    { cm \in db.sql.conversation_messages :
        \E c \in db.sql.part_conversations : \E part \in db.sql.parts :
            \E sys \in db.sql.systems :
                /\ cm.conversation_id = c.id
                /\ c.part_id = part.id
                /\ part.system_id = sys.id
                /\ (part_id = None \/ c.part_id = part_id) }

\* the rows of conversation_messages JOIN part_conversations JOIN parts JOIN
\* systems WHERE user_id = :user_id, narrowed to one part when part_id is given
JoinedMessages(user_id, part_id) ==
    { cm \in db.sql.conversation_messages :
        \E c \in db.sql.part_conversations : \E part \in db.sql.parts :
            \E sys \in db.sql.systems :
                /\ cm.conversation_id = c.id
                /\ c.part_id = part.id
                /\ part.system_id = sys.id
                /\ sys.user_id = user_id
                /\ (part_id = None \/ c.part_id = part_id) }

\* UUID(part_id) raises ValueError
InvalidUuid(id) == id = "not-a-uuid"

RECURSIVE SeqOfSet(_)
\* the rows of a query without ORDER BY, in the order the database gives
SeqOfSet(rows) ==
    IF rows = {} THEN <<>>
    ELSE LET first == CHOOSE x \in rows : TRUE
         IN << first >> \o SeqOfSet(rows \ {first})

\* the ranking without its `rank = 1` filter: every row is kept
RankOne_every(rows, query_embedding) == rows

\* ROW_NUMBER() OVER (PARTITION BY conversation_id ORDER BY distance) = 1:
\* of every conversation the one row nearest to the query vector
RankOne(rows, query_embedding) ==
    { CHOOSE m \in rows :
          /\ m.conversation_id = cid
          /\ \A o \in rows : o.conversation_id = cid
                => Distance(m.embedding, query_embedding)
                       <= Distance(o.embedding, query_embedding)
      : cid \in { r.conversation_id : r \in rows } }

\* PartConversation.query.filter(id.in_(ids)).all()
ConversationsIn(ids) == { c \in db.sql.part_conversations : c.id \in ids }

\* lines 436-441: the fetched conversations in the order of conversation_ids
ordered_conversations(conversation_ids, conversations) ==
    LET found(i) == { c \in conversations : c.id = conversation_ids[i] }
        kept == SelectSeq([i \in 1..Len(conversation_ids) |-> found(i)], LAMBDA f : f # {})
    IN [i \in 1..Len(kept) |-> CHOOSE c \in kept[i] : TRUE]

SearchDefaultLimit == 10

\* the semantic branch of search_conversations (lines 369-450)
semantic_search(current_user_id, query, part_id, limit, enc, query_fails) ==
    LET e == generate_embedding(query, enc)
        failed(q) == [status |-> 500, body |-> [error |-> "Semantic search failed"],
                      query_embedding |-> q, branch |-> "semantic"]
    IN
    IF e.raised THEN failed(NoEmbedding)
    ELSE IF query_fails \/ limit < 0 THEN failed(e.value)
    ELSE
    LET ranked_messages ==
            { cm \in JoinedMessages(current_user_id, part_id) : cm.embedding # NoEmbedding }
        rows == Limit(OrderByDistance(RankOne(ranked_messages, e.value), e.value), limit)
        conversation_ids == [i \in 1..Len(rows) |-> rows[i].conversation_id]
        conversations == ConversationsIn({ conversation_ids[i] : i \in 1..Len(rows) })
        ordered == ordered_conversations(conversation_ids, conversations)
    IN [status |-> 200,
        body |-> [conversations |->
                      [i \in 1..Len(ordered) |-> PartConversation_to_dict(ordered[i])],
                  count |-> Len(ordered)],
        query_embedding |-> e.value, branch |-> "semantic"]

\* the text branch of search_conversations (lines 451-481)
text_search(current_user_id, query, part_id, limit, query_fails) ==
    IF query_fails \/ limit < 0
    THEN [status |-> 500, body |-> [error |-> "query failed"],
          query_embedding |-> NoEmbedding, branch |-> "text"]
    ELSE
    LET matching ==
            { cm.conversation_id : cm \in
                { m \in JoinedMessages(current_user_id, part_id) :
                    ILike(m.content, "%" \o query \o "%") } }
        matching_conv_ids == Limit(SeqOfSet(matching), limit)
        conversations ==
            SeqOfSet(ConversationsIn({ matching_conv_ids[i] : i \in 1..Len(matching_conv_ids) }))
    IN [status |-> 200,
        body |-> [conversations |->
                      [i \in 1..Len(conversations) |-> PartConversation_to_dict(conversations[i])],
                  count |-> Len(conversations)],
        query_embedding |-> NoEmbedding, branch |-> "text"]

\* search_conversations taking the semantic branch whenever it is asked for
search_conversations_unguarded(current_user_id, args, enc, query_fails) ==
    LET query == DictGet(args, "query", "")
        part_id == DictGet(args, "part_id", None)
        search_type == DictGet(args, "search_type", "text")
        limit == DictGet(args, "limit", SearchDefaultLimit)
        stop(status, error) ==
            [status |-> status, body |-> [error |-> error],
             query_embedding |-> NoEmbedding, branch |-> None]
    IN
    IF query = "" THEN stop(400, "Search query is required")
    ELSE IF part_id # None /\ InvalidUuid(part_id) THEN stop(400, "Invalid part ID format")
    ELSE IF search_type = "semantic"
    THEN semantic_search(current_user_id, query, part_id, limit, enc, query_fails)
    ELSE text_search(current_user_id, query, part_id, limit, query_fails)

\* search_conversations (lines 329-485); args are the query parameters
search_conversations(current_user_id, args, enc, query_fails) ==
    LET query == DictGet(args, "query", "")
        part_id == DictGet(args, "part_id", None)
        search_type == DictGet(args, "search_type", "text")
        limit == DictGet(args, "limit", SearchDefaultLimit)
        stop(status, error) ==
            [status |-> status, body |-> [error |-> error],
             query_embedding |-> NoEmbedding, branch |-> None]
    IN
    IF query = "" THEN stop(400, "Search query is required")
    ELSE IF part_id # None /\ InvalidUuid(part_id) THEN stop(400, "Invalid part ID format")
    ELSE IF search_type = "semantic" /\ flags.EMBEDDINGS_AVAILABLE
    THEN semantic_search(current_user_id, query, part_id, limit, enc, query_fails)
    ELSE text_search(current_user_id, query, part_id, limit, query_fails)

SimilarDefaultLimit == 5

\* find_similar_messages (lines 490-581); data is the JSON body
find_similar_messages(current_user_id, request, enc, query_fails) ==
    LET stop(status, error) ==
            [status |-> status, body |-> [error |-> error], query_embedding |-> NoEmbedding]
    IN
    IF ~flags.EMBEDDINGS_AVAILABLE THEN stop(500, "Embedding service is not available")
    ELSE IF ~request.is_json \/ "content" \notin DOMAIN request.data
    THEN stop(400, "Message content is required")
    ELSE
    LET content == request.data.content
        limit == DictGet(request.data, "limit", SimilarDefaultLimit)
        e == generate_embedding(content, enc)
    IN
    IF e.raised \/ query_fails \/ limit < 0
    THEN [status |-> 500, body |-> [error |-> "Failed to find similar messages"],
          query_embedding |-> e.value]
    ELSE
    LET rows == Limit(OrderByDistance(
                         { cm \in JoinedMessages(current_user_id, None) :
                             cm.embedding # NoEmbedding }, e.value), limit)
        conversation(cm) == CHOOSE c \in db.sql.part_conversations : c.id = cm.conversation_id
        part(cm) == CHOOSE x \in db.sql.parts : x.id = conversation(cm).part_id
        message(cm) ==
            [id |-> cm.id, role |-> cm.role, content |-> cm.content,
             conversation_id |-> conversation(cm).id, part_id |-> part(cm).id,
             part_name |-> part(cm).name,
             similarity_score |-> 1 - Distance(cm.embedding, e.value)]
    IN [status |-> 200,
        body |-> [messages |-> [i \in 1..Len(rows) |-> message(rows[i])], count |-> Len(rows)],
        query_embedding |-> e.value]

(***************************************************************************)
(* SpecSearch: the two search handlers and the adapter's vector query over *)
(* stores that hold conversations of both users                            *)
(***************************************************************************)
SearchConversations ==
    { [id |-> "c0", part_id |-> "p1", system_id |-> "s1", title |-> "First talk"],
      [id |-> "c1", part_id |-> "p1", system_id |-> "s1", title |-> "Second talk"],
      [id |-> "c2", part_id |-> "p2", system_id |-> "s2", title |-> "Other talk"] }

\* the messages a store may hold: two conversations of u1, one of u2, and
\* one message without an embedding
MessagePool ==
    { ConversationMessage("m1", "c0", "user", "I am stressed", Encode("I am stressed"), 1),
      ConversationMessage("m2", "c0", "part", "I keep you safe.", NoEmbedding, 2),
      ConversationMessage("m3", "c0", "user", "hi", Encode("hi"), 3),
      ConversationMessage("m4", "c1", "user", "I feel stressed", Encode("I feel stressed"), 4),
      ConversationMessage("m5", "c2", "user", "Hi there", Encode("Hi there"), 5) }

SearchTables(messages) ==
    [SeedTables EXCEPT !.part_conversations = SearchConversations,
                       !.conversation_messages = messages]

Queries == {"stressed", "HI", "_", "zebra"}

\* the query strings of GET /conversations/search
SearchArgs ==
    { [query |-> q] : q \in Queries }
    \cup { [query |-> q, search_type |-> "semantic"] : q \in Queries }
    \cup { [query |-> q, search_type |-> t, limit |-> n] :
              q \in Queries, t \in {"text", "semantic"}, n \in {1, 2} }
    \cup { [query |-> "HI", search_type |-> t, part_id |-> part_id] :
              t \in {"text", "semantic"}, part_id \in {"p1", "p2", "not-a-uuid"} }
    \cup { [search_type |-> "semantic"], [query |-> "hi", limit |-> -1],
           [query |-> "hi", search_type |-> "fuzzy"] }

\* one call of search_conversations with query parameters out of argset
SearchConversationsOver(p, argset) ==
    /\ pc[p] = "idle"
    /\ \E user \in Users, args \in argset, enc \in EncoderBehaviours,
          query_fails \in BOOLEAN :
        LET r == search_conversations(user, args, enc, query_fails) IN
        /\ loc' = [loc EXCEPT ![p] =
                    [op |-> "search_conversations", current_user_id |-> user, args |-> args,
                     branch |-> r.branch, query_embedding |-> r.query_embedding]]
        /\ resp' = [resp EXCEPT ![p] = Json("search_conversations", r.status, r.body)]
        /\ emb_model' = IF r.branch = "semantic" THEN model_after(enc) ELSE emb_model
    /\ pc' = [pc EXCEPT ![p] = "done"]
    /\ UNCHANGED <<flags, db, nextId, clock, http>>

SearchConversationsCall(p) == SearchConversationsOver(p, SearchArgs)

SimilarRequests ==
    { NoRequest, JsonRequest(EmptyDict), JsonRequest([content |-> "I am stressed"]),
      JsonRequest([content |-> "hi", limit |-> 2]),
      JsonRequest([content |-> "hi", limit |-> -1]) }

FindSimilarMessages(p) ==
    /\ pc[p] = "idle"
    /\ \E user \in Users, request \in SimilarRequests, enc \in EncoderBehaviours,
          query_fails \in BOOLEAN :
        LET r == find_similar_messages(user, request, enc, query_fails)
            embedded == flags.EMBEDDINGS_AVAILABLE /\ request.is_json
                        /\ "content" \in DOMAIN request.data
        IN
        /\ loc' = [loc EXCEPT ![p] =
                    [op |-> "find_similar_messages", current_user_id |-> user,
                     request |-> request, query_embedding |-> r.query_embedding]]
        /\ resp' = [resp EXCEPT ![p] = Json("find_similar_messages", r.status, r.body)]
        /\ emb_model' = IF embedded THEN model_after(enc) ELSE emb_model
    /\ pc' = [pc EXCEPT ![p] = "done"]
    /\ UNCHANGED <<flags, db, nextId, clock, http>>

InitSearch ==
    /\ flags \in { f \in Flags : f.LLM_AVAILABLE /\ f.REQUESTS_AVAILABLE }
    /\ \E messages \in SUBSET MessagePool :
          db = [sql |-> SearchTables(messages), supabase |-> SearchTables(messages)]
    /\ nextId = 1
    /\ clock = 6
    /\ pc = [p \in Procs |-> "idle"]
    /\ loc = [p \in Procs |-> NoLoc]
    /\ resp = [p \in Procs |-> NoResp]
    /\ http = NoHttp
    /\ emb_model = None

NextSearch ==
    \E p \in Callers :
        \/ SearchConversationsCall(p)
        \/ FindSimilarMessages(p)
        \/ AdapterQueryVectorSimilarity(p)
        \/ Return(p)

SpecSearch == InitSearch /\ [][NextSearch]_vars

(***************************************************************************)
(* Properties of the search results                                        *)
(***************************************************************************)
\* the stored message with an id, and its distance to a query vector
MessageById(rows, id) == CHOOSE m \in rows : m.id = id
Embedded(rows) == { m \in rows : m.embedding # NoEmbedding }

\* the smallest distance between q and an embedded message of conversation cid
MinDistance(cid, q) ==
    LET ds == { Distance(m.embedding, q) :
                  m \in { x \in Embedded(db.sql.conversation_messages) :
                            x.conversation_id = cid } }
    IN CHOOSE d \in ds : \A o \in ds : d <= o

\* ids lists messages of rows, nearest to q first, at most limit of them,
\* each with an embedding
NearestFirst(ids, rows, q, limit) ==
    /\ Len(ids) <= limit
    /\ \A i \in 1..Len(ids) : \E m \in Embedded(rows) : m.id = ids[i]
    /\ \A i \in 1..Len(ids) : \A j \in i..Len(ids) :
          Distance(MessageById(rows, ids[i]).embedding, q)
              <= Distance(MessageById(rows, ids[j]).embedding, q)

SemanticResult(p) ==
    /\ pc[p] = "done" /\ loc[p].op = "search_conversations"
    /\ loc[p].branch = "semantic" /\ resp[p].status = 200

\* C15: the results of the semantic search, of find_similar_messages and of
\* DBAdapter.query_vector_similarity are in non-decreasing distance to the
\* query vector, at most `limit` long, and name only records that have an
\* embedding.
C15_ResultsNearestFirst ==
    \A p \in Procs :
        /\ (pc[p] = "done" /\ loc[p].op = "query_vector_similarity")
              => LET v == resp[p].body.v
                 IN NearestFirst([i \in 1..Len(v) |-> v[i].id],
                                 Table(db_adapter, "conversation_messages"),
                                 loc[p].args.query_vector, loc[p].args.limit)
        /\ (pc[p] = "done" /\ loc[p].op = "find_similar_messages" /\ resp[p].status = 200)
              => LET v == resp[p].body.messages
                 IN NearestFirst([i \in 1..Len(v) |-> v[i].id],
                                 db.sql.conversation_messages, loc[p].query_embedding,
                                 DictGet(loc[p].request.data, "limit", SimilarDefaultLimit))
        /\ SemanticResult(p)
              => LET v == resp[p].body.conversations
                     q == loc[p].query_embedding
                 IN /\ Len(v) <= DictGet(loc[p].args, "limit", SearchDefaultLimit)
                    /\ \A i \in 1..Len(v) :
                          \E m \in Embedded(db.sql.conversation_messages) :
                              m.conversation_id = v[i].id
                    /\ \A i \in 1..Len(v) : \A j \in i..Len(v) :
                          MinDistance(v[i].id, q) <= MinDistance(v[j].id, q)

\* find_similar_messages cut three embedded messages of the caller down to
\* the two nearest
C15_Witness ==
    \E p \in Procs :
        /\ pc[p] = "done" /\ loc[p].op = "find_similar_messages" /\ resp[p].status = 200
        /\ DictGet(loc[p].request.data, "limit", SimilarDefaultLimit) = 2
        /\ Len(resp[p].body.messages) = 2
        /\ Cardinality(Embedded(JoinedMessages(loc[p].current_user_id, None))) = 3
        /\ resp[p].body.messages[1].similarity_score > resp[p].body.messages[2].similarity_score

\* the conversations a semantic search may return: those of the caller, of
\* the named part if one is named, with an embedded message
Eligible(l) ==
    { m.conversation_id :
        m \in Embedded(JoinedMessages(l.current_user_id, DictGet(l.args, "part_id", None))) }

\* C16: a semantic search returns every conversation at most once, ranked by
\* the distance of its closest embedded message, and the list handed to the
\* caller after the re-fetch keeps that order: no conversation left out is
\* closer than one returned.
C16_ClosestHitPerConversation ==
    \A p \in Procs :
        SemanticResult(p)
            => LET v == resp[p].body.conversations
                   q == loc[p].query_embedding
               IN /\ \A i \in 1..Len(v) : \A j \in 1..Len(v) : v[i].id = v[j].id => i = j
                  /\ \A i \in 1..Len(v) : v[i].id \in Eligible(loc[p])
                  /\ \A i \in 1..Len(v) : \A j \in i..Len(v) :
                        MinDistance(v[i].id, q) <= MinDistance(v[j].id, q)
                  /\ \A i \in 1..Len(v) :
                        \A o \in Eligible(loc[p]) \ { v[k].id : k \in 1..Len(v) } :
                            MinDistance(v[i].id, q) <= MinDistance(o, q)
                  /\ resp[p].body.count = Len(v)

\* a semantic search over two conversations of the caller, one of them with
\* two embedded messages
C16_Witness ==
    \E p \in Procs :
        /\ SemanticResult(p)
        /\ Len(resp[p].body.conversations) = 2
        /\ \E cid \in Eligible(loc[p]) :
              Cardinality({ m \in Embedded(db.sql.conversation_messages) :
                              m.conversation_id = cid }) = 2
        /\ MinDistance(resp[p].body.conversations[1].id, loc[p].query_embedding)
              < MinDistance(resp[p].body.conversations[2].id, loc[p].query_embedding)

\* needle occurs in hay, whatever the case of the letters
ContainsIgnoringCase(hay, needle) ==
    \E i \in 1..(Len(hay) + 1) :
        /\ i + Len(needle) - 1 <= Len(hay)
        /\ \A k \in 1..Len(needle) :
              Lower(SubSeq(hay, i + k - 1, i + k - 1)) = Lower(SubSeq(needle, k, k))

\* C17: a text search returns every conversation once, only conversations
\* of the requesting user, only conversations with a message whose content
\* contains the query as a case-insensitive substring, and at most `limit`
\* of them.
C17_TextSearchMatches ==
    \A p \in Procs :
        ( /\ pc[p] = "done" /\ loc[p].op = "search_conversations"
          /\ loc[p].branch = "text" /\ resp[p].status = 200 )
            => LET v == resp[p].body.conversations
                   query == loc[p].args.query
               IN /\ \A i \in 1..Len(v) : \A j \in 1..Len(v) : v[i].id = v[j].id => i = j
                  /\ Len(v) <= DictGet(loc[p].args, "limit", SearchDefaultLimit)
                  /\ \A i \in 1..Len(v) :
                        \E m \in JoinedMessages(loc[p].current_user_id, None) :
                            /\ m.conversation_id = v[i].id
                            /\ ContainsIgnoringCase(m.content, query)

(***************************************************************************)
(* conversations.py: generate_personality_vectors.  The SELECT of the      *)
(* existing vector and the write with its commit are two statements, and   *)
(* two steps of the call.                                                  *)
(***************************************************************************)
\* PartPersonalityVector(part_id=..., aspect=..., embedding=...)
PartPersonalityVector(id, part_id, aspect, embedding, now) ==
    [id |-> id, part_id |-> part_id, aspect |-> aspect, embedding |-> embedding,
     created_at |-> now, updated_at |-> now]

PersonalityVectors == db.sql.part_personality_vectors

\* a query that never finds the stored vector
existing_vector_none(part_id) == {}

\* PartPersonalityVector.query.filter_by(part_id=part_id, aspect="personality")
\* .first(): the matching rows, of which first() takes one
existing_vector(part_id) ==
    { v \in PersonalityVectors : v.part_id = part_id /\ v.aspect = "personality" }

\* the UNIQUE(part_id, aspect) constraint, where the database has it
UniquePartAspect == "uq_part_aspect"

\* generate_personality_vectors up to and including the SELECT (lines 270-295).
\* status 0: the call goes on to the write.
generate_personality_vectors_begin(part_id, current_user_id, enc, query_fails) ==
    LET stop(status, error, embed) ==
            [status |-> status, body |-> [error |-> error], existing |-> None,
             embedding |-> NoEmbedding, embed_called |-> embed # "not called",
             embed_raised |-> embed = "raised"]
        parts == QueryGet(db.sql.parts, part_id)
    IN
    IF ~flags.EMBEDDINGS_AVAILABLE THEN stop(500, "Embedding service is not available", "not called")
    ELSE IF parts = {} THEN stop(500, "404 Not Found", "not called")
    ELSE
    LET part == CHOOSE x \in parts : TRUE IN
    IF OwnerOf(part) # current_user_id THEN stop(403, "Unauthorized access", "not called")
    ELSE
    LET e == get_part_embedding(Part_to_dict(part), enc) IN
    IF e.raised THEN stop(500, "Failed to generate embeddings", "raised")
    ELSE IF query_fails THEN stop(500, "Failed to generate embeddings", "returned")
    ELSE LET found == existing_vector(part_id) IN
         [status |-> 0, body |-> EmptyDict,
          existing |-> IF found = {} THEN None ELSE (CHOOSE v \in found : TRUE).id,
          embedding |-> e.value, embed_called |-> TRUE, embed_raised |-> FALSE]

GeneratePersonalityVectorsBegin(p) ==
    /\ pc[p] = "idle"
    /\ nextId <= MaxRows
    /\ clock <= MaxRows
    /\ \E part_id \in PartIds, user \in Users, enc \in EncoderBehaviours,
          query_fails \in BOOLEAN :
        LET r == generate_personality_vectors_begin(part_id, user, enc, query_fails) IN
        /\ loc' = [loc EXCEPT ![p] =
                    [op |-> "generate_personality_vectors", part_id |-> part_id,
                     current_user_id |-> user, existing |-> r.existing,
                     embedding |-> r.embedding, embed_raised |-> r.embed_raised]]
        /\ emb_model' = IF r.embed_called THEN model_after(enc) ELSE emb_model
        /\ IF r.status = 0
           THEN /\ pc' = [pc EXCEPT ![p] = "pv_write"]
                /\ UNCHANGED resp
           ELSE /\ pc' = [pc EXCEPT ![p] = "done"]
                /\ resp' = [resp EXCEPT ![p] =
                              Json("generate_personality_vectors", r.status, r.body)]
    /\ UNCHANGED <<flags, db, nextId, clock, http>>

\* lines 297-320: update the vector found or add a new one, and commit
generate_personality_vectors_write(l, commit_fails) ==
    LET failed == [status |-> 500, body |-> [error |-> "Failed to generate embeddings"],
                   vectors |-> PersonalityVectors]
        done(vectors) ==
            [status |-> 201,
             body |-> [message |-> "Personality vectors generated successfully",
                       part_id |-> l.part_id],
             vectors |-> vectors]
        duplicate == \E v \in PersonalityVectors :
                        v.part_id = l.part_id /\ v.aspect = "personality"
    IN
    IF commit_fails THEN failed
    ELSE IF l.existing # None
    THEN done({ IF v.id = l.existing
                THEN [v EXCEPT !.embedding = l.embedding, !.updated_at = clock]
                ELSE v : v \in PersonalityVectors })
    ELSE IF UniquePartAspect \in db.sql.constraints /\ duplicate THEN failed
    ELSE done(PersonalityVectors \cup
                { PartPersonalityVector(NewId("v"), l.part_id, "personality",
                                        l.embedding, clock) })

GeneratePersonalityVectorsWrite(p) ==
    /\ pc[p] = "pv_write"
    /\ \E commit_fails \in BOOLEAN :
        LET r == generate_personality_vectors_write(loc[p], commit_fails) IN
        /\ db' = [db EXCEPT !.sql.part_personality_vectors = r.vectors]
        /\ nextId' = IF Cardinality(r.vectors) > Cardinality(PersonalityVectors)
                     THEN nextId + 1 ELSE nextId
        /\ clock' = IF r.status = 201 THEN clock + 1 ELSE clock
        /\ resp' = [resp EXCEPT ![p] =
                      Json("generate_personality_vectors", r.status, r.body)]
    /\ pc' = [pc EXCEPT ![p] = "done"]
    /\ UNCHANGED <<flags, loc, http, emb_model>>

\* the relational database with or without the UNIQUE constraint on the
\* vectors; the handlers of conversations.py use db.session
InitVectors ==
    /\ flags \in { f \in Flags : f.LLM_AVAILABLE /\ f.REQUESTS_AVAILABLE /\ ~f.using_supabase }
    /\ \E constraints \in SUBSET {UniquePartAspect} :
          db = [sql |-> [SeedTables EXCEPT !.constraints = constraints],
                supabase |-> SeedTables]
    /\ nextId = 1
    /\ clock = 1
    /\ pc = [p \in Procs |-> "idle"]
    /\ loc = [p \in Procs |-> NoLoc]
    /\ resp = [p \in Procs |-> NoResp]
    /\ http = NoHttp
    /\ emb_model = None

\* one call at a time
NextVectorsSeq ==
    \E p \in Callers :
        \/ GeneratePersonalityVectorsBegin(p)
        \/ GeneratePersonalityVectorsWrite(p)
        \/ Return(p)

SpecVectorsSeq == InitVectors /\ [][NextVectorsSeq]_vars

\* two request threads
NextVectors ==
    \E p \in Procs :
        \/ GeneratePersonalityVectorsBegin(p)
        \/ GeneratePersonalityVectorsWrite(p)
        \/ Return(p)

SpecVectors == InitVectors /\ [][NextVectors]_vars

\* the vectors stored for one part and aspect
VectorsOf(vectors, part_id, aspect) ==
    { v \in vectors : v.part_id = part_id /\ v.aspect = aspect }

\* C18: in a sequence of generate_personality_vectors calls a call for a
\* part that already has its vector updates that row in place and adds no
\* row, so that a part has exactly one row per aspect after every
\* successful call.
C18_SecondCallUpdatesInPlace ==
    [][ \A p \in Procs :
          (pc[p] = "pv_write" /\ pc'[p] = "done")
             => LET before == VectorsOf(PersonalityVectors, loc[p].part_id, "personality")
                    after == VectorsOf(PersonalityVectors', loc[p].part_id, "personality")
                IN /\ before # {} => { v.id : v \in PersonalityVectors' }
                                        = { v.id : v \in PersonalityVectors }
                   /\ (before # {} /\ resp'[p].status = 201)
                         => \A v \in after : v.updated_at = clock
                   /\ resp'[p].status = 201 => Cardinality(after) = 1 ]_vars

\* a second successful call for a part: its one row was updated after it
\* was created
C18_Witness ==
    \E p \in Procs :
        /\ pc[p] = "done" /\ loc[p].op = "generate_personality_vectors"
        /\ resp[p].status = 201
        /\ \E v \in VectorsOf(PersonalityVectors, loc[p].part_id, "personality") :
              v.updated_at > v.created_at

\* C19: whatever the interleaving of concurrent generate_personality_vectors
\* calls, storage holds at most one personality-vector row per part and
\* aspect.
C19_OneVectorPerPartAspect ==
    \A v \in PersonalityVectors : \A w \in PersonalityVectors :
        (v.part_id = w.part_id /\ v.aspect = w.aspect) => v = w

\* C20: a failing embedding is skipped and does not fail the call of
\* generate_personality_vectors as a whole.
C20_EmbeddingFailureSkipped ==
    \A p \in Procs :
        ( /\ pc[p] = "done" /\ loc[p].op = "generate_personality_vectors"
          /\ loc[p].embed_raised )
            => resp[p].status = 201

(***************************************************************************)
(* Properties of the prompt                                                *)
(***************************************************************************)
\* the line of a text attribute, left out when the attribute is empty,
\* None or missing
TextLine(part, key, label) ==
    IF DictGet(part, key, "") \in {"", None}
    THEN <<>>
    ELSE << label \o ": " \o DictGet(part, key, "") >>

\* the prompt laid out as the six sections, in order
SixSectionPrompt(part, history, user_message) ==
    LET name == DictGet(part, "name", "a part")
        framing ==
            << "You are roleplaying as " \o name
                 \o ", which is an internal part of a person according to Internal Family Systems therapy." >>
        attributes ==
            TextLine(part, "role", "Role") \o TextLine(part, "description", "Description")
            \o ListLine(part, "feelings", "Feelings") \o ListLine(part, "beliefs", "Beliefs")
            \o ListLine(part, "triggers", "Triggers") \o ListLine(part, "needs", "Needs")
        turns ==
            [i \in 1..Len(history) |->
                (IF DictGet(history[i], "role", None) = "user"
                 THEN "User" ELSE DictGet(part, "name", "Part"))
                \o ": " \o DictGet(history[i], "content", "")]
        closing == << "User: " \o user_message, DictGet(part, "name", "Part") \o ": " >>
    IN Join("\n", framing \o attributes \o Guidelines) \o "\n\n" \o Join("\n", turns \o closing)

\* C21: the prompt sent for a non-empty user message is, in this order, the
\* framing line naming the part, one line for each non-empty attribute among
\* role, description, feelings, beliefs, triggers and needs and none for an
\* empty or missing one, the guidelines and safety block, the history turns
\* oldest first, the new user line and an open line for the part.
C21_PromptSections ==
    \A p \in Procs :
        (resp[p].op = "chat_with_part" /\ flags.REQUESTS_AVAILABLE /\ loc[p].user_message # "")
            => http.request = SixSectionPrompt(loc[p].part, loc[p].conversation_history,
                                               loc[p].user_message)

(***************************************************************************)
(* Properties of the encoder load                                          *)
(***************************************************************************)
\* a read of the `model` property in this state constructs the encoder:
\* the library is there and _model is still None (lines 49-55)
LoadAttempt == flags.TRANSFORMERS_AVAILABLE /\ emb_model = None

\* C22: the encoder is loaded at most once per process: an embed call that
\* attempts the load, whether the load succeeds or fails, leaves the manager
\* so that no later embed call attempts it again.
C22_OneLoadAttempt ==
    [][ \A p \in Procs :
          ((\E op \in EmbeddingOps : Begins(p, op)) /\ LoadAttempt) => ~LoadAttempt' ]_vars

(***************************************************************************)
(* parts.py: delete_part, and SpecRefs: a request thread that creates      *)
(* conversations and adds messages while another deletes conversations     *)
(* and parts                                                               *)
(***************************************************************************)
\* delete_part (lines 156-177): no ownership check, the adapter's answer
\* decides between 404 and success
delete_part(part_id, fault) ==
    LET r == delete(db_adapter, "parts", part_id, fault) IN
    IF r.value = PyBool(FALSE)
    THEN [status |-> 404, body |-> [error |-> "Part not found"], changed |-> r.changed]
    ELSE [status |-> 200, body |-> [message |-> "Part deleted successfully"],
          changed |-> r.changed]

DeletePart(p) ==
    /\ pc[p] = "idle"
    /\ \E part_id \in PartIds, fault \in Faults :
        LET r == delete_part(part_id, fault) IN
        /\ db' = [db EXCEPT ![Backend] = Stored(@, "parts", r.changed)]
        /\ loc' = [loc EXCEPT ![p] = [op |-> "delete_part", part_id |-> part_id]]
        /\ resp' = [resp EXCEPT ![p] = Json("delete_part", r.status, r.body)]
    /\ pc' = [pc EXCEPT ![p] = "done"]
    /\ UNCHANGED <<flags, nextId, clock, http, emb_model>>

InitRefs ==
    /\ flags \in { f \in Flags : f.EMBEDDINGS_AVAILABLE /\ f.TRANSFORMERS_AVAILABLE
                                 /\ f.LLM_AVAILABLE /\ f.REQUESTS_AVAILABLE }
    /\ InitCommon

\* one thread makes the conversation calls while the other deletes
NextRefs ==
    \/ \E p \in Callers :
          \/ CreateConversation(p)
          \/ CreatePartConversation(p)
          \/ AddMessageBegin(p)
          \/ AddMessageGenerate(p)
          \/ AddMessageReply(p)
    \/ \E p \in Procs \ Callers :
          \/ AdapterDelete(p)
          \/ DeletePart(p)
    \/ \E p \in Procs : Return(p)

SpecRefs == InitRefs /\ [][NextRefs]_vars

\* C23: in every store, after any interleaving of create conversation,
\* add_message, delete conversation and delete part, every message's
\* conversation_id is the id of a stored conversation and every
\* conversation's part_id is the id of a stored part.
C23_ReferencesResolve ==
    \A b \in {"sql", "supabase"} :
        /\ \A m \in db[b].conversation_messages :
              \E c \in db[b].part_conversations : c.id = m.conversation_id
        /\ \A c \in db[b].part_conversations :
              \E part \in db[b].parts : part.id = c.part_id

(***************************************************************************)
(* conversations.py: get_conversation, and SpecConversations: the handlers *)
(* of conversations.py called one at a time by either user                 *)
(***************************************************************************)
\* get_conversation (lines 121-157)
get_conversation(conversation_id, current_user_id) ==
    LET found == QueryGet(db.sql.part_conversations, conversation_id)
        stop(status, error) == [status |-> status, body |-> [error |-> error]]
    IN
    IF found = {} THEN stop(500, "404 Not Found")
    ELSE
    LET conversation == CHOOSE c \in found : TRUE
        parts == QueryGet(db.sql.parts, conversation.part_id)
    IN
    IF parts = {} THEN stop(500, "'NoneType' object has no attribute 'system'")
    ELSE
    LET part == CHOOSE x \in parts : TRUE IN
    IF OwnerOf(part) # current_user_id THEN stop(403, "Unauthorized access")
    ELSE
    LET messages == SeqOfSet({ m \in db.sql.conversation_messages :
                                 m.conversation_id = conversation_id })
    IN [status |-> 200,
        body |-> [conversation |-> PartConversation_to_dict(conversation),
                  messages |-> [i \in 1..Len(messages) |->
                                   ConversationMessage_to_dict(messages[i])],
                  part |-> Part_to_dict(part)]]

GetConversation(p) ==
    /\ pc[p] = "idle"
    /\ \E conversation_id \in ConversationIds, user \in Users :
        LET r == get_conversation(conversation_id, user) IN
        /\ loc' = [loc EXCEPT ![p] =
                    [op |-> "get_conversation", conversation_id |-> conversation_id,
                     current_user_id |-> user]]
        /\ resp' = [resp EXCEPT ![p] = Json("get_conversation", r.status, r.body)]
    /\ pc' = [pc EXCEPT ![p] = "done"]
    /\ UNCHANGED <<flags, db, nextId, clock, http, emb_model>>

\* the query strings the searches are made with here
FewSearchArgs ==
    { [query |-> "anxious"], [query |-> "anxious", search_type |-> "semantic"],
      [search_type |-> "semantic"] }

InitConversations ==
    /\ flags \in { f \in Flags : f.LLM_AVAILABLE /\ f.REQUESTS_AVAILABLE /\ ~f.using_supabase }
    /\ InitCommon

NextConversations ==
    \E p \in Callers :
        \/ CreateConversation(p)
        \/ GetConversation(p)
        \/ AddMessageBegin(p)
        \/ AddMessageGenerate(p)
        \/ AddMessageReply(p)
        \/ GeneratePersonalityVectorsBegin(p)
        \/ GeneratePersonalityVectorsWrite(p)
        \/ SearchConversationsOver(p, FewSearchArgs)
        \/ FindSimilarMessages(p)
        \/ Return(p)

SpecConversations == InitConversations /\ [][NextConversations]_vars

(***************************************************************************)
(* Properties of the stored messages                                       *)
(***************************************************************************)
\* C24: no step of create_conversation, add_message, search_conversations,
\* find_similar_messages or generate_personality_vectors changes a message
\* that is already stored: its role, content, conversation_id, timestamp and
\* embedding stay as its first commit left them.
C24_MessagesAppendOnly ==
    [][ \A m \in Messages : { x \in Messages' : x.id = m.id } = {m} ]_vars

\* add_message finished with 201: its user message was stored without an
\* embedding and stays so, although the encoder then embedded the reply
C24_Witness ==
    \E p \in Procs :
        /\ pc[p] = "done" /\ loc[p].op = "add_message" /\ resp[p].status = 201
        /\ loc[p].user_message_obj \in Messages
        /\ loc[p].user_message_obj.embedding = NoEmbedding
        /\ \E m \in Messages :
              /\ m.role = "part" /\ m.conversation_id = loc[p].conversation_id
              /\ m.timestamp > loc[p].user_message_obj.timestamp
              /\ m.embedding # NoEmbedding

\* the stored messages of a conversation, oldest first
Turns(conversation_id) ==
    Reverse(OrderByTimestampDesc({ m \in Messages : m.conversation_id = conversation_id }))

\* C25: whenever no add_message call is under way, the messages of every
\* conversation, taken in timestamp order, alternate between the user's turn
\* and the part's turn, starting with the user's.
C25_TurnsAlternate ==
    (\A p \in Procs : pc[p] \in {"idle", "done"}) =>
        \A conversation_id \in { m.conversation_id : m \in Messages } :
            LET turns == Turns(conversation_id) IN
            \A i \in 1..Len(turns) :
                turns[i].role = (IF i % 2 = 1 THEN "user" ELSE "part")

\* C26: every message with role 'part' that add_message has stored has
\* non-empty content, whatever the generation call returned.
C26_ReplyNotEmpty ==
    \A m \in Messages : m.role = "part" => m.content # ""

(***************************************************************************)
(* SpecHistory: add_message over a store whose conversation c0 already     *)
(* holds up to HistoryLimit messages                                       *)
(***************************************************************************)
\* the first n messages of conversation c0, the user's turn first
EarlierTurns(n) ==
    { ConversationMessage("h" \o IntStr(i), "c0", IF i % 2 = 1 THEN "user" ELSE "part",
                          IF i % 2 = 1 THEN "I feel anxious" ELSE "I keep you safe.",
                          NoEmbedding, 2 * i) : i \in 1..n }

\* two messages of another conversation of the same part, written in between
OtherTurns(n) ==
    { ConversationMessage("g1", "c5", "user", "hi", NoEmbedding, 2 * n - 1),
      ConversationMessage("g2", "c5", "part", "hello", NoEmbedding, 2 * n + 1) }

SeedLengths == {0, HistoryLimit - 1, HistoryLimit}

InitHistory ==
    /\ flags \in { f \in Flags : f.LLM_AVAILABLE /\ f.REQUESTS_AVAILABLE /\ ~f.using_supabase }
    /\ \E n \in SeedLengths :
        /\ db = [sql |-> [SeedTables EXCEPT
                            !.part_conversations =
                                { [id |-> "c0", part_id |-> "p1", system_id |-> "s1",
                                   title |-> "First talk"],
                                  [id |-> "c5", part_id |-> "p1", system_id |-> "s1",
                                   title |-> "Second talk"] },
                            !.conversation_messages = EarlierTurns(n) \cup OtherTurns(n)],
                 supabase |-> SeedTables]
        /\ clock = 2 * n + 2
    /\ nextId = 1
    /\ pc = [p \in Procs |-> "idle"]
    /\ loc = [p \in Procs |-> NoLoc]
    /\ resp = [p \in Procs |-> NoResp]
    /\ http = NoHttp
    /\ emb_model = None

NextHistory ==
    \E p \in Callers :
        \/ AddMessageBegin(p)
        \/ AddMessageGenerate(p)
        \/ AddMessageReply(p)
        \/ Return(p)

SpecHistory == InitHistory /\ [][NextHistory]_vars

\* does the string s end with the string t?
EndsWith(s, t) == Len(s) >= Len(t) /\ SubSeq(s, Len(s) - Len(t) + 1, Len(s)) = t

\* C27: the history add_message hands to chat_with_part holds at most
\* HistoryLimit messages, all of the call's conversation, in ascending
\* timestamp order; no stored message of the conversation that is left out is
\* as recent as one that is in; its last entry is the user message the call
\* has just stored, so the prompt ends with that message twice: as the last
\* history line and as the new user line.
C27_HistoryWindow ==
    \A p \in Procs : (pc[p] = "am_reply") =>
        LET history == loc[p].history
            stored == { m \in Messages : m.conversation_id = loc[p].conversation_id }
            ids == { history[i].id : i \in 1..Len(history) }
            line == "User: " \o loc[p].user_message
        IN /\ Len(history) <= HistoryLimit
           /\ Len(history) = (IF Cardinality(stored) < HistoryLimit
                              THEN Cardinality(stored) ELSE HistoryLimit)
           /\ \A i \in 1..Len(history) :
                 /\ history[i].conversation_id = loc[p].conversation_id
                 /\ \E m \in stored : ConversationMessage_to_dict(m) = history[i]
           /\ \A i \in 1..(Len(history) - 1) : history[i].timestamp < history[i + 1].timestamp
           /\ \A m \in stored : m.id \notin ids => m.timestamp < history[1].timestamp
           /\ history[Len(history)].id = loc[p].user_message_obj.id
           /\ EndsWith(http.request,
                       "\n" \o line \o "\n" \o line \o "\n"
                            \o DictGet(Part_to_dict(loc[p].part), "name", "Part") \o ": ")

\* the call found more than HistoryLimit messages in its conversation: the
\* history is full and the oldest stored message is not in it
C27_Witness ==
    \E p \in Procs :
        /\ pc[p] = "am_reply"
        /\ Len(loc[p].history) = HistoryLimit
        /\ \E m \in Messages :
              /\ m.conversation_id = loc[p].conversation_id
              /\ m.timestamp < loc[p].history[1].timestamp
        /\ \E m \in Messages : m.conversation_id # loc[p].conversation_id

(***************************************************************************)
(* Properties of the searches across users                                 *)
(***************************************************************************)
\* the systems, parts, conversations and messages that belong to a user
OwnData(user) ==
    LET systems == { s \in db.sql.systems : s.user_id = user }
        parts == { x \in db.sql.parts : x.system_id \in { s.id : s \in systems } }
        conversations ==
            { c \in db.sql.part_conversations : c.part_id \in { x.id : x \in parts } }
        messages ==
            { m \in db.sql.conversation_messages :
                m.conversation_id \in { c.id : c \in conversations } }
    IN [systems |-> systems, parts |-> parts, conversations |-> conversations,
        messages |-> messages]

\* the messages in own that belong to a conversation of the part, or to any
\* conversation when no part is named
OfPart(own, part_id) ==
    { m \in own.messages :
        \E c \in own.conversations :
            c.id = m.conversation_id /\ (part_id = None \/ c.part_id = part_id) }

\* the body of a text search computed from nothing but the data in own
OwnTextSearch(own, query, part_id, limit) ==
    LET matching == { m.conversation_id : m \in
                        { x \in OfPart(own, part_id) : ILike(x.content, "%" \o query \o "%") } }
        ids == Limit(SeqOfSet(matching), limit)
        conversations ==
            SeqOfSet({ c \in own.conversations : c.id \in { ids[i] : i \in 1..Len(ids) } })
    IN [conversations |->
            [i \in 1..Len(conversations) |-> PartConversation_to_dict(conversations[i])],
        count |-> Len(conversations)]

\* the body of a semantic search computed from nothing but the data in own
OwnSemanticSearch(own, query_embedding, part_id, limit) ==
    LET ranked == { m \in OfPart(own, part_id) : m.embedding # NoEmbedding }
        rows == Limit(OrderByDistance(RankOne(ranked, query_embedding), query_embedding), limit)
        ids == [i \in 1..Len(rows) |-> rows[i].conversation_id]
        ordered == ordered_conversations(ids, own.conversations)
    IN [conversations |-> [i \in 1..Len(ordered) |-> PartConversation_to_dict(ordered[i])],
        count |-> Len(ordered)]

\* the body of find_similar_messages computed from nothing but the data in own
OwnSimilarMessages(own, query_embedding, limit) ==
    LET rows == Limit(OrderByDistance({ m \in own.messages : m.embedding # NoEmbedding },
                                      query_embedding), limit)
        conversation(m) == CHOOSE c \in own.conversations : c.id = m.conversation_id
        part(m) == CHOOSE x \in own.parts : x.id = conversation(m).part_id
    IN [messages |->
            [i \in 1..Len(rows) |->
                [id |-> rows[i].id, role |-> rows[i].role, content |-> rows[i].content,
                 conversation_id |-> rows[i].conversation_id, part_id |-> part(rows[i]).id,
                 part_name |-> part(rows[i]).name,
                 similarity_score |-> 1 - Distance(rows[i].embedding, query_embedding)]],
        count |-> Len(rows)]

\* C28: every successful answer of search_conversations (text and semantic)
\* and of find_similar_messages is the answer computed from the caller's own
\* systems, parts, conversations and messages alone: whatever the other user
\* has stored does not enter it, and nothing of the other user is returned.
C28_SearchIsolated ==
    \A p \in Procs : (pc[p] = "done" /\ resp[p].status = 200) =>
        LET l == loc[p]
            own == OwnData(l.current_user_id)
        IN /\ (l.op = "search_conversations" /\ l.branch = "text") =>
                 resp[p].body = OwnTextSearch(own, l.args.query, DictGet(l.args, "part_id", None),
                                              DictGet(l.args, "limit", SearchDefaultLimit))
           /\ (l.op = "search_conversations" /\ l.branch = "semantic") =>
                 resp[p].body = OwnSemanticSearch(own, l.query_embedding,
                                                  DictGet(l.args, "part_id", None),
                                                  DictGet(l.args, "limit", SearchDefaultLimit))
           /\ (l.op = "find_similar_messages") =>
                 resp[p].body = OwnSimilarMessages(own, l.query_embedding,
                                                   DictGet(l.request.data, "limit",
                                                           SimilarDefaultLimit))

\* a search of u1 has returned a result while a message of u2 is stored that
\* matches the same query
C28_Witness ==
    \E p \in Procs :
        /\ pc[p] = "done" /\ loc[p].op = "search_conversations"
        /\ loc[p].current_user_id = "u1"
        /\ resp[p].status = 200 /\ resp[p].body.count > 0
        /\ \E m \in OwnData("u2").messages :
              /\ m.embedding # NoEmbedding
              /\ ILike(m.content, "%" \o loc[p].args.query \o "%")

(***************************************************************************)
(* Properties of the ownership checks                                      *)
(***************************************************************************)
OwnerCheckedOps ==
    {"create_conversation", "get_conversation", "add_message", "generate_personality_vectors"}

\* the part a call recorded in l is about: the one it names, or the one of
\* the conversation it names
PartsOf(l) ==
    IF l.op \in {"create_conversation", "generate_personality_vectors"}
    THEN { x \in db.sql.parts : x.id = l.part_id }
    ELSE { x \in db.sql.parts :
             \E c \in db.sql.part_conversations :
                 c.id = l.conversation_id /\ c.part_id = x.id }

\* the call recorded in l is about a stored part of another user's system
NotOwner(l) ==
    /\ l.op \in OwnerCheckedOps
    /\ \E x \in PartsOf(l) : \E sys \in db.sql.systems :
          sys.id = x.system_id /\ sys.user_id # l.current_user_id

\* a step that leaves the stores alone and calls neither the encoder nor
\* the generation endpoint
NothingDone == db' = db /\ nextId' = nextId /\ http' = http /\ emb_model' = emb_model

\* C29 as stated: a call of create_conversation, get_conversation,
\* add_message or generate_personality_vectors by a user who does not own the
\* part's system ends at once with 403, changes no stored row and calls
\* neither the encoder nor the generation endpoint.
C29_NotOwnerUnauthorized ==
    [][ \A p \in Procs :
          (pc[p] = "idle" /\ pc'[p] # "idle" /\ NotOwner(loc'[p])) =>
              /\ pc'[p] = "done"
              /\ resp'[p].status = 403
              /\ NothingDone ]_vars

\* C29 amended: the same, except that generate_personality_vectors tests
\* EMBEDDINGS_AVAILABLE before it looks at the caller and answers 500 when
\* the embedding service is unavailable; it still changes and calls nothing.
C29_NotOwnerChangesNothing ==
    [][ \A p \in Procs :
          (pc[p] = "idle" /\ pc'[p] # "idle" /\ NotOwner(loc'[p])) =>
              /\ pc'[p] = "done"
              /\ resp'[p].status =
                    (IF /\ loc'[p].op = "generate_personality_vectors"
                        /\ ~flags.EMBEDDINGS_AVAILABLE
                     THEN 500 ELSE 403)
              /\ NothingDone ]_vars

\* add_message with a valid body has been refused with 403 to a user who is
\* not the owner of the conversation's part, while personality vectors are
\* stored
C29_Witness ==
    \E p \in Procs :
        /\ pc[p] = "done" /\ loc[p].op = "add_message" /\ resp[p].status = 403
        /\ NotOwner(loc[p])
        /\ loc[p].request = JsonRequest([message |-> "I feel anxious"])
        /\ \E v \in db.sql.part_personality_vectors : TRUE

(***************************************************************************)
(* Properties of the choice between the two searches                       *)
(***************************************************************************)
\* C30: a search_conversations call that gets as far as searching takes the
\* semantic branch exactly when search_type is 'semantic' and
\* EMBEDDINGS_AVAILABLE holds; with any other search_type, or with
\* 'semantic' while embeddings are unavailable, it runs the text search,
\* which answers 200 unless the database query itself fails.
C30_SemanticOnlyWhenAvailable ==
    \A p \in Procs :
        (pc[p] = "done" /\ loc[p].op = "search_conversations" /\ loc[p].branch # None) =>
            LET search_type == DictGet(loc[p].args, "search_type", "text") IN
            /\ loc[p].branch = (IF search_type = "semantic" /\ flags.EMBEDDINGS_AVAILABLE
                                THEN "semantic" ELSE "text")
            /\ loc[p].branch = "text" =>
                  \/ resp[p].status = 200
                  \/ resp[p].status = 500 /\ resp[p].body.error = "query failed"

\* a semantic search was asked for while embeddings are unavailable, and the
\* text search answered it with a match
C30_Witness ==
    \E p \in Procs :
        /\ pc[p] = "done" /\ loc[p].op = "search_conversations"
        /\ DictGet(loc[p].args, "search_type", "text") = "semantic"
        /\ ~flags.EMBEDDINGS_AVAILABLE
        /\ loc[p].branch = "text"
        /\ resp[p].status = 200 /\ resp[p].body.count > 0

====
